---- MODULE Spec2Model ----
(***************************************************************************)
(* State-machine model of the LLM annotation orchestrator of the paper     *)
(* pipeline (src/llm_processor.py) with the JSON helpers of src/utils.py,  *)
(* the result schemas of src/models.py, the cache layout and taxonomy of   *)
(* src/config_v1.py and the paragraph flattening of src/scraper_ar5iv.py.  *)
(*                                                                         *)
(* Representation                                                          *)
(*  - a JSON / Python value is a record [t, s, n, l, f]: t is the type     *)
(*    tag, s the payload of a string, n the payload of a number or bool    *)
(*    (confidence is kept in tenths: 5 is 0.5, 15 is 1.5), l the payload   *)
(*    of a list (entry i > 0 is the string "item i", entry 0 is an entry   *)
(*    that is not a string; a list of objects has the tag objs and the     *)
(*    objects as entries), f the fields of an object;                      *)
(*  - a text is a sequence of tokens [k, v]; an object is written as the   *)
(*    tokens lbrace, body, rbrace where the body token carries the         *)
(*    object's members, and any other complete JSON value is one val       *)
(*    token;                                                               *)
(*  - the fields raw_response and category_name_zh of the result schemas   *)
(*    are not carried: no operation reads them.                            *)
(***************************************************************************)
EXTENDS Integers, Sequences, FiniteSets, TLC

(***************************************************************************)
(* JSON / Python values                                                    *)
(***************************************************************************)
NoFields == [x \in {} |-> 0]

Null == [t |-> "null", s |-> "", n |-> 0, l |-> <<>>, f |-> NoFields]

Str(str) == [t |-> "str", s |-> str, n |-> 0, l |-> <<>>, f |-> NoFields]

Num(num) == [t |-> "num", s |-> "", n |-> num, l |-> <<>>, f |-> NoFields]

Bool(b) == [t |-> "bool", s |-> "", n |-> IF b THEN 1 ELSE 0, l |-> <<>>, f |-> NoFields]

List(items) == [t |-> "list", s |-> "", n |-> 0, l |-> items, f |-> NoFields]

\* A list whose entries are objects.
Objs(items) == [t |-> "objs", s |-> "", n |-> 0, l |-> items, f |-> NoFields]

Obj(fields) == [t |-> "obj", s |-> "", n |-> 0, l |-> <<>>, f |-> fields]

\* Python truthiness of a value (`if not parsed`, `if data`).
Truthy(v) ==
    CASE v.t = "null" -> FALSE
      [] v.t = "bool" -> v.n # 0
      [] v.t = "num"  -> v.n # 0
      [] v.t = "str"  -> v.s # ""
      [] v.t = "list" -> v.l # <<>>
      [] v.t = "objs" -> v.l # <<>>
      [] v.t = "obj"  -> DOMAIN v.f # {}
      [] OTHER        -> TRUE

\* dict.get(key, default)
Get(v, key, default) == IF key \in DOMAIN v.f THEN v.f[key] ELSE default

\* Mutant of Prefix: the list is not cut.
PrefixUncut(seq, cap) == seq

\* seq[:cap] of a Python list.
Prefix(seq, cap) == SubSeq(seq, 1, IF Len(seq) < cap THEN Len(seq) ELSE cap)

(***************************************************************************)
(* Texts and json.loads                                                    *)
(***************************************************************************)
Tok(kind) == [k |-> kind, v |-> Null]

LBrace == Tok("lbrace")

RBrace == Tok("rbrace")

FenceOpen == Tok("fence_json")

Fence == Tok("fence")

Junk == Tok("junk")

Space == Tok("space")

Body(fields) == [k |-> "body", v |-> Obj(fields)]

Val(v) == [k |-> "val", v |-> v]

\* The text of a JSON object with the given members.
ObjText(fields) ==
    IF DOMAIN fields = {} THEN <<LBrace, RBrace>> ELSE <<LBrace, Body(fields), RBrace>>

ParseError == [ok |-> FALSE, val |-> Null]

RECURSIVE LStrip(_)
LStrip(text) ==
    IF text # <<>> /\ Head(text).k = "space" THEN LStrip(Tail(text)) ELSE text

RECURSIVE RStrip(_)
RStrip(text) ==
    IF text # <<>> /\ text[Len(text)].k = "space"
    THEN RStrip(SubSeq(text, 1, Len(text) - 1))
    ELSE text

\* json.loads: the whole text, surrounding whitespace aside, must be one
\* JSON value; anything else raises JSONDecodeError (ok = FALSE).
json_loads(text) ==
    LET core == RStrip(LStrip(text)) IN
    CASE Len(core) = 1 /\ core[1].k = "val" ->
            [ok |-> TRUE, val |-> core[1].v]
      [] Len(core) = 2 /\ core[1].k = "lbrace" /\ core[2].k = "rbrace" ->
            [ok |-> TRUE, val |-> Obj(NoFields)]
      [] Len(core) = 3 /\ core[1].k = "lbrace" /\ core[2].k = "body"
                       /\ core[3].k = "rbrace" ->
            [ok |-> TRUE, val |-> core[2].v]
      [] OTHER -> ParseError

Positions(text, kinds) == {i \in 1..Len(text) : text[i].k \in kinds}

Min(S) == CHOOSE x \in S : \A y \in S : x <= y

Max(S) == CHOOSE x \in S : \A y \in S : x >= y

\* re.search(r"```json\s*([\s\S]*?)\s*```", text): the leftmost ```json
\* that is followed by a ```; group 1 runs lazily up to the first ``` after
\* it (the three backticks that open a later ```json match as well), with
\* the whitespace on both sides left out.
FenceMatch(text) ==
    LET opens == {i \in Positions(text, {"fence_json"}) :
                     \E j \in Positions(text, {"fence", "fence_json"}) : j > i}
    IN IF opens = {} THEN [found |-> FALSE, group |-> <<>>]
       ELSE LET i == Min(opens)
                j == Min({c \in Positions(text, {"fence", "fence_json"}) : c > i})
            IN [found |-> TRUE, group |-> RStrip(LStrip(SubSeq(text, i + 1, j - 1)))]

\* re.search(r"\{[\s\S]*\}", text): greedy, from the first opening brace to
\* the last closing brace after it.
BraceMatch(text) ==
    LET opens == {i \in Positions(text, {"lbrace"}) :
                     \E j \in Positions(text, {"rbrace"}) : j > i}
    IN IF opens = {} THEN [found |-> FALSE, group |-> <<>>]
       ELSE LET i == Min(opens)
                j == Max(Positions(text, {"rbrace"}))
            IN [found |-> TRUE, group |-> SubSeq(text, i, j)]

\* Mutant of safe_json_parse: the fenced block is parsed outside a try, so
\* a block that does not parse raises instead of leaving the turn to the
\* brace span.
safe_json_parseUnguarded(text) ==
    IF text = <<>> THEN ParseError
    ELSE IF json_loads(text).ok THEN json_loads(text)
    ELSE IF FenceMatch(text).found
         THEN IF json_loads(FenceMatch(text).group).ok
              THEN json_loads(FenceMatch(text).group)
              ELSE [ok |-> FALSE, val |-> Str("JSONDecodeError")]
    ELSE IF BraceMatch(text).found /\ json_loads(BraceMatch(text).group).ok
         THEN json_loads(BraceMatch(text).group)
    ELSE ParseError

\* safe_json_parse: ok = FALSE stands for the return value None.
safe_json_parse(text) ==
    IF text = <<>> THEN ParseError
    ELSE IF json_loads(text).ok THEN json_loads(text)
    ELSE IF FenceMatch(text).found /\ json_loads(FenceMatch(text).group).ok
         THEN json_loads(FenceMatch(text).group)
    ELSE IF BraceMatch(text).found /\ json_loads(BraceMatch(text).group).ok
         THEN json_loads(BraceMatch(text).group)
    ELSE ParseError

(***************************************************************************)
(* Bounds of the model                                                     *)
(***************************************************************************)
\* Operation calls in one behaviour.
MaxCalls == 2

\* Longest list the model returns for keywords / labels.
MaxListLen == 12

\* Largest concurrency an LLMProcessor is constructed with.
MaxConcurrency == 2

\* Largest max_paragraphs a caller passes to generate_comments.
MaxParagraphsArg == 3

\* Most nodes a proxy configuration holds.
MaxNodes == 3

\* Largest fail_count a node is taken to.
MaxFailCount == 4

(***************************************************************************)
(* Configuration: taxonomy and cache layout (src/config_v1.py)             *)
(***************************************************************************)
PAPER_CATEGORIES ==
    [language_models        |-> [name |-> "Language Models"],
     computer_vision        |-> [name |-> "Computer Vision"],
     multimodal             |-> [name |-> "Multimodal"],
     reinforcement_learning |-> [name |-> "Reinforcement Learning"],
     generative_models      |-> [name |-> "Generative Models"],
     alignment              |-> [name |-> "Alignment & Safety"],
     efficiency             |-> [name |-> "Efficiency"],
     robotics               |-> [name |-> "Robotics"],
     speech_audio           |-> [name |-> "Speech & Audio"],
     graphs_knowledge       |-> [name |-> "Graphs & Knowledge"],
     other                  |-> [name |-> "Other"]]

Kinds == {"classification", "keywords", "labels", "comments"}

\* Paper ids, each with its characters.
PaperIdChars ==
    [p \in {"2401.07", "2401_07"} |->
        IF p = "2401.07" THEN <<"2401", ".", "07">> ELSE <<"2401", "_", "07">>]

PaperIds == DOMAIN PaperIdChars

\* paper_id.replace(".", "_")
SafeId(paper_id) ==
    [i \in DOMAIN PaperIdChars[paper_id] |->
        IF PaperIdChars[paper_id][i] = "." THEN "_" ELSE PaperIdChars[paper_id][i]]

\* llm_outputs_dir / category / f"{safe_id}.json"
get_llm_output_file(category, paper_id) == <<category, SafeId(paper_id)>>

CacheFiles == {get_llm_output_file(k, p) : k \in Kinds, p \in PaperIds}

(***************************************************************************)
(* Python conversions and the result schemas (src/models.py)               *)
(***************************************************************************)
\* A datetime and its rendering by json.dumps(default=str); the instant is
\* the number of the call that took it.
DateTime(n) == [t |-> "datetime", s |-> "", n |-> n, l |-> <<>>, f |-> NoFields]

DateStr(n) == [t |-> "str", s |-> "datetime", n |-> n, l |-> <<>>, f |-> NoFields]

\* Strings that float() and pydantic read as a number, with their value in
\* tenths.
NumericStrings == [x \in {"0.7"} |-> 7]

Raised == [ok |-> FALSE, val |-> Null]

Ok(v) == [ok |-> TRUE, val |-> v]

\* float(x): ValueError for a string that is no number, TypeError for
\* None, a list or a dict.
Float(v) ==
    CASE v.t = "num"  -> Ok(v)
      [] v.t = "bool" -> Ok(Num(10 * v.n))
      [] v.t = "str" /\ v.s \in DOMAIN NumericStrings -> Ok(Num(NumericStrings[v.s]))
      [] OTHER -> Raised

IsStr(v) == v.t = "str"

IsOptStr(v) == v.t \in {"str", "null"}

IsStrList(v) == v.t = "list" /\ \A i \in DOMAIN v.l : v.l[i] > 0

\* pydantic's reading of a datetime field.
IsDateTime(v) == v.t = "datetime" \/ (v.t = "str" /\ v.s = "datetime")

AsDateTime(v) == DateTime(v.n)

ConfidenceMin == 0

ConfidenceMax == 10

HasAll(data, keys) == keys \subseteq DOMAIN data

\* ClassificationResult(**data): the validated model, or ValidationError.
\* now is the instant default_factory=datetime.now would give.
ClassificationResult(data, now) ==
    LET conf == IF "confidence" \in DOMAIN data THEN Float(data["confidence"])
                ELSE Ok(Num(0))
        reasoning == IF "reasoning" \in DOMAIN data THEN data["reasoning"] ELSE Null
        at == IF "generated_at" \in DOMAIN data THEN data["generated_at"]
              ELSE DateTime(now)
    IN IF /\ HasAll(data, {"paper_id", "category", "category_name"})
          /\ IsStr(data["paper_id"]) /\ IsStr(data["category"])
          /\ IsStr(data["category_name"])
          /\ conf.ok /\ conf.val.n >= ConfidenceMin /\ conf.val.n <= ConfidenceMax
          /\ IsOptStr(reasoning)
          /\ IsDateTime(at)
       THEN Ok(Obj([paper_id      |-> data["paper_id"],
                    category      |-> data["category"],
                    category_name |-> data["category_name"],
                    confidence    |-> conf.val,
                    reasoning     |-> reasoning,
                    generated_at  |-> AsDateTime(at)]))
       ELSE Raised

\* KeywordsResult(**data)
KeywordsResult(data, now) ==
    LET kw == IF "keywords" \in DOMAIN data THEN data["keywords"] ELSE List(<<>>)
        zh == IF "keywords_zh" \in DOMAIN data THEN data["keywords_zh"] ELSE List(<<>>)
        at == IF "generated_at" \in DOMAIN data THEN data["generated_at"]
              ELSE DateTime(now)
    IN IF /\ HasAll(data, {"paper_id"}) /\ IsStr(data["paper_id"])
          /\ IsStrList(kw) /\ IsStrList(zh) /\ IsDateTime(at)
       THEN Ok(Obj([paper_id     |-> data["paper_id"],
                    keywords     |-> kw,
                    keywords_zh  |-> zh,
                    generated_at |-> AsDateTime(at)]))
       ELSE Raised

\* LabelsResult(**data)
LabelsResult(data, now) ==
    LET lb == IF "labels" \in DOMAIN data THEN data["labels"] ELSE List(<<>>)
        zh == IF "labels_zh" \in DOMAIN data THEN data["labels_zh"] ELSE List(<<>>)
        at == IF "generated_at" \in DOMAIN data THEN data["generated_at"]
              ELSE DateTime(now)
    IN IF /\ HasAll(data, {"paper_id"}) /\ IsStr(data["paper_id"])
          /\ IsStrList(lb) /\ IsStrList(zh) /\ IsDateTime(at)
       THEN Ok(Obj([paper_id     |-> data["paper_id"],
                    labels       |-> lb,
                    labels_zh    |-> zh,
                    generated_at |-> AsDateTime(at)]))
       ELSE Raised

(***************************************************************************)
(* Cache files (src/utils.py save_json / load_json)                        *)
(***************************************************************************)
\* A file: missing, empty, holding text that is no JSON, or holding the
\* JSON value val.
Missing == [st |-> "missing", val |-> Null]

EmptyFile == [st |-> "empty", val |-> Null]

CorruptFile == [st |-> "corrupt", val |-> Null]

JsonFile(v) == [st |-> "json", val |-> v]

\* json.dumps(data, default=str): a datetime is written as its str().
RECURSIVE json_dumps(_)
json_dumps(v) ==
    CASE v.t = "datetime" -> DateStr(v.n)
      [] v.t = "obj"  -> Obj([k \in DOMAIN v.f |-> json_dumps(v.f[k])])
      [] v.t = "objs" -> Objs([i \in DOMAIN v.l |-> json_dumps(v.l[i])])
      [] OTHER -> v

\* save_json(data, filepath): the file as it is after the write.
save_json(data) == JsonFile(json_dumps(data))

\* load_json(filepath): None for a missing file, json.loads of the content
\* otherwise; json.loads raises on an empty or unparseable content.
load_json(file) ==
    CASE file.st = "missing" -> Ok(Null)
      [] file.st = "json"    -> Ok(file.val)
      [] OTHER               -> Raised

\* The files a run can find in place of a result it wrote itself: none, a
\* file cut short by an interrupted write, or a file that holds other JSON.
StaleFiles ==
    {Missing, EmptyFile, CorruptFile,
     JsonFile(Obj(NoFields)),
     JsonFile(List(<<1>>)),
     JsonFile(Obj([note |-> Str("x")]))}

(***************************************************************************)
(* State                                                                   *)
(***************************************************************************)
VARIABLES
    cache,        \* cache file path -> file
    stats,        \* LLMProcessor.stats: kind -> [success, failure]
    concurrency,  \* LLMProcessor.concurrency
    calls,        \* operation calls started so far (also the clock)
    last,         \* log of the latest operation call
    job,          \* the generate_comments call in progress
    run,          \* PaperPipeline.step3_llm_process: the batch in progress
    scraper       \* the network side: the page fetch, the batch extraction or
                  \* the page parse in progress, or the ProxyManager

vars == <<cache, stats, concurrency, calls, last, job, run, scraper>>

\* The state of the LLM processor and of the pipeline around it.
llmVars == <<cache, stats, concurrency, calls, last, job, run>>

NoResult == Null

NoJob == [active |-> FALSE, tasks |-> <<>>]

\* No batch is in progress.
NoRun == [active |-> FALSE]

\* No page fetch and no extraction is in progress.
NoScraper == [kind |-> "none"]

NoCall == [op |-> "none", outcome |-> "none"]

\* The log of a finished call: what it was given, the file and the counters
\* it found, how it
\* ended ("hit", "result", "no_result", "raised"), what it returned and how
\* many generate calls it issued.
CallLog(op, paper_id, force, input, before, outcome, result, gens) ==
    [op |-> op, paper_id |-> paper_id, force |-> force, input |-> input,
     before |-> before, stats_before |-> stats,
     outcome |-> outcome, result |-> result, gens |-> gens]

\* stats[kind][field] += 1
Count(st, kind, field) == [st EXCEPT ![kind][field] = @ + 1]

(***************************************************************************)
(* OllamaClient.generate                                                   *)
(***************************************************************************)
\* What the HTTP exchange can come to: status 200 with a response text, any
\* other status, a timeout, a transport error.
HttpOk(text) == [kind |-> "200", text |-> text]

HttpFailures ==
    {[kind |-> "status", text |-> <<>>],
     [kind |-> "timeout", text |-> <<>>],
     [kind |-> "error", text |-> <<>>]}

\* Mutant of generate: a request that fails is sent a second time.
generateRetrying(http) ==
    IF http.kind = "200" THEN [ok |-> TRUE, text |-> http.text, posts |-> 1]
    ELSE [ok |-> FALSE, text |-> <<>>, posts |-> 2]

\* generate(): one session.post; the text of a 200 answer, None
\* (ok = FALSE) for any other status, a timeout or an exception.  posts is
\* the number of HTTP requests the call has sent.
generate(http) ==
    IF http.kind = "200" THEN [ok |-> TRUE, text |-> http.text, posts |-> 1]
    ELSE [ok |-> FALSE, text |-> <<>>, posts |-> 1]

\* `if not response`
NoResponse(response) == ~response.ok \/ response.text = <<>>

(***************************************************************************)
(* The cache check shared by the four operations                           *)
(***************************************************************************)
\* Mutant of UseCache: the force flag is read the wrong way round.
UseCacheInverted(file, force) == file.st # "missing" /\ force

\* Mutant of UseCache: the force flag is not looked at.
UseCacheIgnoresForce(file, force) == file.st # "missing"

\* cache_file.exists() and not force
UseCache(file, force) == file.st # "missing" /\ ~force

\* if cache_file.exists() and not force: data = load_json(cache_file);
\* if data: ...   st is "data" with the loaded object's fields, "miss", or
\* "raised" when load_json raises or the data cannot be passed as **data.
CheckCache(file, force) ==
    IF ~UseCache(file, force) THEN [st |-> "miss", data |-> NoFields]
    ELSE LET data == load_json(file) IN
         IF ~data.ok THEN [st |-> "raised", data |-> NoFields]
         ELSE IF ~Truthy(data.val) THEN [st |-> "miss", data |-> NoFields]
         ELSE IF data.val.t # "obj" THEN [st |-> "raised", data |-> NoFields]
         ELSE [st |-> "data", data |-> data.val.f]

\* return Result(**data): st is "hit" with the result, or "raised" when the
\* constructor raises; a miss and a raise of the check are passed on.
FromCache(chk, built) ==
    IF chk.st # "data" THEN [st |-> chk.st, res |-> NoResult]
    ELSE IF built.ok THEN [st |-> "hit", res |-> built.val]
    ELSE [st |-> "raised", res |-> NoResult]

(***************************************************************************)
(* classify_paper, extract_keywords, extract_labels                        *)
(***************************************************************************)
\* How the part of an operation after the cache check ends: the outcome,
\* the result it built and the counter it incremented ("" for none).
Failure == [outcome |-> "no_result", result |-> NoResult, count |-> "failure"]

Raise == [outcome |-> "raised", result |-> NoResult, count |-> ""]

Success(result) == [outcome |-> "result", result |-> result, count |-> "success"]

DefaultConfidence == 5

KeywordsCap == 10

LabelsCap == 5

\* Mutant of Category: the membership test never succeeds, so a category
\* of the taxonomy is folded to "other" as well.
CategoryAlwaysOther(parsed) ==
    LET category == Get(parsed, "category", Str("other")) IN
    IF category.t \in {"list", "objs", "obj"} THEN Raised ELSE Ok(Str("other"))

\* category = parsed.get("category", "other");
\* if category not in PAPER_CATEGORIES: category = "other".
\* An unhashable category (a list, a dict) makes `in` raise TypeError.
Category(parsed) ==
    LET category == Get(parsed, "category", Str("other")) IN
    IF category.t \in {"list", "objs", "obj"} THEN Raised
    ELSE IF IsStr(category) /\ category.s \in DOMAIN PAPER_CATEGORIES THEN Ok(category)
    ELSE Ok(Str("other"))

\* cat_info = PAPER_CATEGORIES[category]; a key that is absent raises KeyError.
CatInfo(category) ==
    IF category.s \in DOMAIN PAPER_CATEGORIES
    THEN Ok(Str(PAPER_CATEGORIES[category.s].name)) ELSE Raised

\* float(parsed.get("confidence", 0.5))
Confidence(parsed) == Float(Get(parsed, "confidence", Num(DefaultConfidence)))

\* Mutant of Slice: the [:cap] is left out.
SliceUncut(v, cap) ==
    IF v.t \in {"list", "objs", "str"} THEN Ok(v) ELSE Raised

\* value[:cap]: a list or a string is cut, anything else raises TypeError.
Slice(v, cap) ==
    CASE v.t = "list" -> Ok(List(Prefix(v.l, cap)))
      [] v.t = "objs" -> Ok(Objs(Prefix(v.l, cap)))
      [] v.t = "str"  -> Ok(v)
      [] OTHER        -> Raised

\* classify_paper once the answer is parsed: a parse that failed or gave
\* nothing is a failure, an answer that is no object raises on .get, then
\* the category, its name and the confidence are read and the result built.
ClassifyParsed(paper_id, parsed, now) ==
    IF ~parsed.ok \/ ~Truthy(parsed.val) THEN Failure
    ELSE IF parsed.val.t # "obj" THEN Raise
    ELSE LET category == Category(parsed.val) IN
    IF ~category.ok THEN Raise
    ELSE LET cat_info == CatInfo(category.val) IN
    IF ~cat_info.ok THEN Raise
    ELSE LET confidence == Confidence(parsed.val) IN
    IF ~confidence.ok THEN Raise
    ELSE LET result == ClassificationResult(
                 [paper_id      |-> Str(paper_id),
                  category      |-> category.val,
                  category_name |-> cat_info.val,
                  confidence    |-> confidence.val,
                  reasoning     |-> Get(parsed.val, "reasoning", Null)], now) IN
    IF result.ok THEN Success(result.val) ELSE Raise

\* classify_paper from the generate call on.
ClassifyResponse(paper_id, response, now) ==
    IF NoResponse(response) THEN Failure
    ELSE ClassifyParsed(paper_id, safe_json_parse(response.text), now)

\* extract_keywords once the answer is parsed.
KeywordsParsed(paper_id, parsed, now) ==
    IF ~parsed.ok \/ ~Truthy(parsed.val) THEN Failure
    ELSE IF parsed.val.t # "obj" THEN Raise
    ELSE LET keywords == Slice(Get(parsed.val, "keywords", List(<<>>)), KeywordsCap)
             keywords_zh == Slice(Get(parsed.val, "keywords_zh", List(<<>>)), KeywordsCap)
         IN
    IF ~keywords.ok \/ ~keywords_zh.ok THEN Raise
    ELSE LET result == KeywordsResult(
                 [paper_id    |-> Str(paper_id),
                  keywords    |-> keywords.val,
                  keywords_zh |-> keywords_zh.val], now) IN
    IF result.ok THEN Success(result.val) ELSE Raise

\* extract_keywords from the generate call on.
KeywordsResponse(paper_id, response, now) ==
    IF NoResponse(response) THEN Failure
    ELSE KeywordsParsed(paper_id, safe_json_parse(response.text), now)

\* extract_labels once the answer is parsed.
LabelsParsed(paper_id, parsed, now) ==
    IF ~parsed.ok \/ ~Truthy(parsed.val) THEN Failure
    ELSE IF parsed.val.t # "obj" THEN Raise
    ELSE LET labels == Slice(Get(parsed.val, "labels", List(<<>>)), LabelsCap)
             labels_zh == Slice(Get(parsed.val, "labels_zh", List(<<>>)), LabelsCap)
         IN
    IF ~labels.ok \/ ~labels_zh.ok THEN Raise
    ELSE LET result == LabelsResult(
                 [paper_id  |-> Str(paper_id),
                  labels    |-> labels.val,
                  labels_zh |-> labels_zh.val], now) IN
    IF result.ok THEN Success(result.val) ELSE Raise

\* extract_labels from the generate call on.
LabelsResponse(paper_id, response, now) ==
    IF NoResponse(response) THEN Failure
    ELSE LabelsParsed(paper_id, safe_json_parse(response.text), now)

\* The result model of each single-request operation.
Model(kind, data, now) ==
    CASE kind = "classification" -> ClassificationResult(data, now)
      [] kind = "keywords"       -> KeywordsResult(data, now)
      [] kind = "labels"         -> LabelsResult(data, now)

\* The part after the cache check of each single-request operation.
Respond(kind, paper_id, response, now) ==
    CASE kind = "classification" -> ClassifyResponse(paper_id, response, now)
      [] kind = "keywords"       -> KeywordsResponse(paper_id, response, now)
      [] kind = "labels"         -> LabelsResponse(paper_id, response, now)

\* The end of a call of a single-request operation: a hit returns the
\* cached result, a raise of the check passes on, a miss ends as the
\* generate call and the parse decide, with the write and the counter.
CompleteCall(kind, paper_id, force, http, file, chk, out) ==
    IF chk.st = "hit"
    THEN /\ last' = CallLog(kind, paper_id, force, http, cache[file],
                            "hit", chk.res, 0)
         /\ UNCHANGED <<cache, stats>>
    ELSE IF chk.st = "raised"
    THEN /\ last' = CallLog(kind, paper_id, force, http, cache[file],
                            "raised", NoResult, 0)
         /\ UNCHANGED <<cache, stats>>
    ELSE /\ last' = CallLog(kind, paper_id, force, http, cache[file],
                            out.outcome, out.result, 1)
                        @@ [posts |-> generate(http).posts]
         /\ cache' = IF out.outcome = "result"
                     THEN [cache EXCEPT ![file] = save_json(out.result)]
                     ELSE cache
         /\ stats' = IF out.count = "" THEN stats
                     ELSE Count(stats, kind, out.count)

\* The cache check of a single-request operation on the data it loaded.
CheckedCall(kind, paper_id, force, http, file, data) ==
    CompleteCall(kind, paper_id, force, http, file,
                 FromCache(data, Model(kind, data.data, calls + 1)),
                 Respond(kind, paper_id, generate(http), calls + 1))

\* One whole call of a single-request operation: the cache check, and on a
\* miss the generate call, the result, the write and the counter.
OperationCall(kind, paper_id, force, http) ==
    /\ ~job.active
    /\ calls' = calls + 1
    /\ UNCHANGED <<concurrency, job>>
    /\ CheckedCall(kind, paper_id, force, http, get_llm_output_file(kind, paper_id),
                   CheckCache(cache[get_llm_output_file(kind, paper_id)], force))

\* An operation called on its own, outside a batch.
Operation(kind, paper_id, force, http) ==
    /\ calls < MaxCalls
    /\ OperationCall(kind, paper_id, force, http)
    /\ UNCHANGED <<run, scraper>>

classify_paper(paper_id, force, http) ==
    Operation("classification", paper_id, force, http)

extract_keywords(paper_id, force, http) ==
    Operation("keywords", paper_id, force, http)

extract_labels(paper_id, force, http) ==
    Operation("labels", paper_id, force, http)

(***************************************************************************)
(* Documents and paragraph selection                                       *)
(***************************************************************************)
\* A paragraph text is known by its name and its length in characters.
Text(id, len) == [t |-> "str", s |-> id, n |-> len, l |-> <<>>, f |-> NoFields]

\* truncate_text(text, max_length, suffix="..."): texts longer than
\* max_length are cut to max_length characters, suffix included.
truncate_text(text, max_length) ==
    IF text.s = "" \/ text.n <= max_length THEN text
    ELSE [text EXCEPT !.n = max_length, !.l = <<1>>]

Section(title, paragraphs, subsections) ==
    [title |-> title, paragraphs |-> paragraphs, subsections |-> subsections]

RECURSIVE Concat(_)
Concat(seqs) == IF seqs = <<>> THEN <<>> ELSE Head(seqs) \o Concat(Tail(seqs))

\* process_section of get_all_paragraphs: the section's own paragraphs
\* first, then those of its subsections in order.
RECURSIVE process_section(_)
process_section(section) ==
    [i \in DOMAIN section.paragraphs |->
        [section_title |-> section.title, text |-> section.paragraphs[i]]]
    \o Concat([i \in DOMAIN section.subsections |->
                  process_section(section.subsections[i])])

get_all_paragraphs(content) ==
    Concat([i \in DOMAIN content.sections |-> process_section(content.sections[i])])

\* sorted(paragraphs, key=lambda x: len(x["text"]), reverse=True): a stable
\* sort, so paragraphs of equal length keep their order.
SortedPosition(paragraphs, i) ==
    1 + Cardinality({j \in DOMAIN paragraphs :
                        \/ paragraphs[j].text.n > paragraphs[i].text.n
                        \/ /\ paragraphs[j].text.n = paragraphs[i].text.n
                           /\ j < i})

\* Mutant of SortByLength: the paragraphs stay in document order.
SortByLengthUnsorted(paragraphs) == paragraphs

SortByLength(paragraphs) ==
    [k \in DOMAIN paragraphs |->
        paragraphs[CHOOSE i \in DOMAIN paragraphs : SortedPosition(paragraphs, i) = k]]

\* The paragraphs generate_comments submits, in task order.
SelectParagraphs(content, max_paragraphs) ==
    Prefix(SortByLength(get_all_paragraphs(content)), max_paragraphs)

\* The documents of the model.
DocDeep ==
    [title |-> "Deep",
     sections |-> <<Section("Intro", <<Text("p1", 40), Text("p2", 250)>>,
                            <<Section("Setup", <<Text("p3", 120)>>, <<>>)>>)>>]

DocTies ==
    [title |-> "Ties",
     sections |-> <<Section("A", <<Text("q1", 80)>>,
                            <<Section("A1", <<Text("q2", 80)>>, <<>>)>>),
                    Section("B", <<>>, <<>>)>>]

DocEmpty == [title |-> "Empty", sections |-> <<>>]

Documents == {DocDeep, DocTies, DocEmpty}

(***************************************************************************)
(* generate_paragraph_comment and generate_comments                        *)
(***************************************************************************)
\* ParagraphComment(**data)
ParagraphComment(data) ==
    LET key_points == IF "key_points" \in DOMAIN data THEN data["key_points"]
                      ELSE List(<<>>)
        notes == IF "reading_notes" \in DOMAIN data THEN data["reading_notes"]
                 ELSE Str("")
        importance == IF "importance" \in DOMAIN data THEN data["importance"]
                      ELSE Str("medium")
        title == IF "section_title" \in DOMAIN data THEN data["section_title"]
                 ELSE Str("")
    IN IF /\ HasAll(data, {"paragraph_index", "paragraph_text"})
          /\ data["paragraph_index"].t = "num" /\ IsStr(data["paragraph_text"])
          /\ IsStr(title) /\ IsStrList(key_points) /\ IsStr(notes) /\ IsStr(importance)
       THEN Ok(Obj([paragraph_index |-> data["paragraph_index"],
                    paragraph_text  |-> data["paragraph_text"],
                    section_title   |-> title,
                    key_points      |-> key_points,
                    reading_notes   |-> notes,
                    importance      |-> importance]))
       ELSE Raised

\* CommentsResult(**data)
CommentsResult(data, now) ==
    LET comments == IF "comments" \in DOMAIN data THEN data["comments"] ELSE Objs(<<>>)
        summary == IF "summary" \in DOMAIN data THEN data["summary"] ELSE Str("")
        at == IF "generated_at" \in DOMAIN data THEN data["generated_at"]
              ELSE DateTime(now)
        items == [i \in DOMAIN comments.l |->
                     IF comments.l[i].t = "obj" THEN ParagraphComment(comments.l[i].f)
                     ELSE Raised]
    IN IF /\ HasAll(data, {"paper_id"}) /\ IsStr(data["paper_id"])
          /\ \/ comments.t = "objs" /\ \A i \in DOMAIN items : items[i].ok
             \/ comments.t = "list" /\ comments.l = <<>>
          /\ IsStr(summary) /\ IsDateTime(at)
       THEN Ok(Obj([paper_id     |-> data["paper_id"],
                    comments     |-> Objs([i \in DOMAIN items |-> items[i].val]),
                    summary      |-> summary,
                    generated_at |-> AsDateTime(at)]))
       ELSE Raised

\* What a paragraph task comes to: a comment, None, or an exception that
\* gather(return_exceptions=True) hands back.
TaskComment(c) == [kind |-> "comment", val |-> c]

TaskNone == [kind |-> "none", val |-> Null]

TaskException == [kind |-> "exception", val |-> Null]

\* generate_paragraph_comment from the answer of the generate call on.
generate_paragraph_comment(section_title, paragraph, paragraph_index, response) ==
    IF NoResponse(response) THEN TaskNone
    ELSE LET parsed == safe_json_parse(response.text) IN
    IF ~parsed.ok \/ ~Truthy(parsed.val) THEN TaskNone
    ELSE IF parsed.val.t # "obj" THEN TaskException
    ELSE LET comment == ParagraphComment(
                 [paragraph_index |-> Num(paragraph_index),
                  paragraph_text  |-> truncate_text(paragraph, 100),
                  section_title   |-> Str(section_title),
                  key_points      |-> Get(parsed.val, "key_points", List(<<>>)),
                  reading_notes   |-> Get(parsed.val, "reading_notes", Str("")),
                  importance      |-> Get(parsed.val, "importance", Str("medium"))]) IN
    IF comment.ok THEN TaskComment(comment.val) ELSE TaskException

\* Mutant of Collect: one failed paragraph discards every comment.
CollectAllOrNothing(results) ==
    IF \E i \in DOMAIN results : results[i].kind # "comment" THEN <<>>
    ELSE [i \in DOMAIN results |-> results[i].val]

\* for result in results: keep what is neither an exception nor None.
RECURSIVE Collect(_)
Collect(results) ==
    IF results = <<>> THEN <<>>
    ELSE (IF Head(results).kind = "comment" THEN <<Head(results).val>> ELSE <<>>)
         \o Collect(Tail(results))

\* The summary string: the number of comments and of those of high
\* importance.
Summary(comments) ==
    [t |-> "str", s |-> "summary", n |-> 0,
     l |-> <<Len(comments),
             Cardinality({i \in DOMAIN comments :
                             comments[i].f["importance"] = Str("high")})>>,
     f |-> NoFields]

\* generate_comments after gather: the result, or None when no paragraph
\* gave a comment.
CommentsOutcome(paper_id, results, now) ==
    LET comments == Collect(results) IN
    IF comments = <<>> THEN Failure
    ELSE LET result == CommentsResult(
                 [paper_id |-> Str(paper_id),
                  comments |-> Objs(comments),
                  summary  |-> Summary(comments)], now) IN
    IF result.ok THEN Success(result.val) ELSE Raise

\* Mutant of CanAcquire: one task too many is let through.
CanAcquireOffByOne(sem) == sem >= 0

\* asyncio.Semaphore: acquire goes through while the value is positive and
\* takes one permit, release gives one back.
CanAcquire(sem) == sem > 0

Acquired(sem) == sem - 1

\* Mutant of Released: a task leaves the semaphore without giving its
\* permit back.
ReleasedKept(sem) == sem

Released(sem) == sem + 1

Waiting(para, idx) == [st |-> "waiting", para |-> para, idx |-> idx, res |-> TaskNone]

\* Mutant of MakeTasks: every task is given the index 0.
MakeTasksOneIndex(paragraphs) == [i \in DOMAIN paragraphs |-> Waiting(paragraphs[i], 0)]

\* tasks = [process_paragraph(i, para) for i, para in enumerate(paragraphs)]
MakeTasks(paragraphs) == [i \in DOMAIN paragraphs |-> Waiting(paragraphs[i], i - 1)]

Pending(paper_id, force) ==
    [op |-> "comments", paper_id |-> paper_id, force |-> force, outcome |-> "pending"]

\* generate_comments up to the creation of the paragraph tasks: the cache
\* check, the selection of the paragraphs, the semaphore.
StartCommentsCall(paper_id, content, max_paragraphs, force) ==
    LET file == get_llm_output_file("comments", paper_id)
        now == calls + 1
        data == CheckCache(cache[file], force)
        chk == FromCache(data, CommentsResult(data.data, now))
        input == [content |-> content, max_paragraphs |-> max_paragraphs]
    IN /\ ~job.active
       /\ calls' = now
       /\ UNCHANGED <<cache, stats, concurrency>>
       /\ IF chk.st = "hit"
          THEN /\ last' = CallLog("comments", paper_id, force, input, cache[file],
                                  "hit", chk.res, 0) @@ [tasks |-> <<>>]
               /\ UNCHANGED job
          ELSE IF chk.st = "raised"
          THEN /\ last' = CallLog("comments", paper_id, force, input, cache[file],
                                  "raised", NoResult, 0) @@ [tasks |-> <<>>]
               /\ UNCHANGED job
          ELSE /\ last' = Pending(paper_id, force)
               /\ job' = [active |-> TRUE, paper_id |-> paper_id, force |-> force,
                          input |-> input, before |-> cache[file],
                          tasks |-> MakeTasks(SelectParagraphs(content, max_paragraphs)),
                          sem |-> concurrency, gens |-> 0, posts |-> 0,
                          overtaken |-> FALSE]

\* generate_comments called on its own, outside a batch.
StartComments(paper_id, content, max_paragraphs, force) ==
    /\ calls < MaxCalls
    /\ StartCommentsCall(paper_id, content, max_paragraphs, force)
    /\ UNCHANGED <<run, scraper>>

\* A paragraph task enters `async with semaphore` and issues its generate
\* call.
AcquireSemaphore(i) ==
    /\ job.active
    /\ i \in DOMAIN job.tasks
    /\ job.tasks[i].st = "waiting"
    /\ CanAcquire(job.sem)
    /\ job' = [job EXCEPT !.tasks[i].st = "running",
                          !.sem = Acquired(@),
                          !.gens = @ + 1]
    /\ UNCHANGED <<cache, stats, concurrency, calls, last, run, scraper>>

\* The generate call of a paragraph task returns; the task builds its
\* comment (or None, or raises) and leaves the semaphore.  overtaken notes
\* that a task has completed ahead of a task of a lower index.
CompleteParagraph(i, http) ==
    /\ job.active
    /\ i \in DOMAIN job.tasks
    /\ job.tasks[i].st = "running"
    /\ job' = [job EXCEPT
                 !.tasks[i].st = "done",
                 !.tasks[i].res = generate_paragraph_comment(
                                      job.tasks[i].para.section_title,
                                      job.tasks[i].para.text,
                                      job.tasks[i].idx, generate(http)),
                 !.sem = Released(@),
                 !.posts = @ + generate(http).posts,
                 !.overtaken = @ \/ \E j \in DOMAIN job.tasks :
                                       /\ job.tasks[j].idx < job.tasks[i].idx
                                       /\ job.tasks[j].st # "done"]
    /\ UNCHANGED <<cache, stats, concurrency, calls, last, run, scraper>>

AllDone(tasks) == \A i \in DOMAIN tasks : tasks[i].st = "done"

\* gather has every task's result: the comments are collected in task
\* order, the result is built, written and counted.
FinishCommentsCall ==
    LET file == get_llm_output_file("comments", job.paper_id)
        out == CommentsOutcome(job.paper_id,
                               [i \in DOMAIN job.tasks |-> job.tasks[i].res], calls)
    IN /\ job.active
       /\ AllDone(job.tasks)
       /\ last' = CallLog("comments", job.paper_id, job.force, job.input, job.before,
                          out.outcome, out.result, job.gens)
                      @@ [tasks |-> job.tasks, posts |-> job.posts,
                          overtaken |-> job.overtaken]
       /\ cache' = IF out.outcome = "result"
                   THEN [cache EXCEPT ![file] = save_json(out.result)]
                   ELSE cache
       /\ stats' = IF out.count = "" THEN stats ELSE Count(stats, "comments", out.count)
       /\ job' = NoJob
       /\ UNCHANGED <<concurrency, calls>>

\* The end of a generate_comments call made on its own.
FinishComments == ~run.active /\ FinishCommentsCall /\ UNCHANGED <<run, scraper>>

(***************************************************************************)
(* What the model answers                                                  *)
(***************************************************************************)
\* <<1, 2, ..., n>>: a list of n different strings.
Items(n) == [i \in 1..n |-> i]

Fenced(fields) == <<FenceOpen, Space, LBrace, Body(fields), RBrace, Space, Fence>>

Embedded(fields) == <<Junk, LBrace, Body(fields), RBrace, Junk>>

\* Texts that hold no JSON object: empty, prose, a JSON list, a JSON number,
\* an object without members.
PlainTexts == {<<>>, <<Junk>>, <<Val(List(<<1>>))>>, <<Val(Num(0))>>, <<LBrace, RBrace>>}

ClassifyObjects ==
    {[category |-> Str("language_models"), confidence |-> Num(9), reasoning |-> Str("r")],
     [category |-> Str("banana")],
     [category |-> Str(""), confidence |-> Num(3)],
     [confidence |-> Num(10)],
     [category |-> Null, confidence |-> Num(0)],
     [category |-> Str("robotics"), confidence |-> Str("0.7")],
     [category |-> Str("robotics"), confidence |-> Str("high")],
     [category |-> Str("robotics"), confidence |-> Null],
     [category |-> Str("robotics"), confidence |-> Num(15)],
     [category |-> Str("robotics"), confidence |-> Num(-1)],
     [category |-> List(<<1>>), confidence |-> Num(5)],
     [category |-> Str("other"), reasoning |-> Num(1)]}

ClassifyTexts ==
    PlainTexts
    \cup {ObjText(o) : o \in ClassifyObjects}
    \cup {Fenced([category |-> Str("multimodal"), confidence |-> Num(8)]),
          Embedded([category |-> Str("efficiency")])}

\* The list lengths the model answers with: none, the two caps, one past
\* each cap, the longest.
ListLengths == {0, LabelsCap, LabelsCap + 1, KeywordsCap, KeywordsCap + 1, MaxListLen}

KeywordsObjects ==
    {[keywords |-> List(Items(n)), keywords_zh |-> List(Items(n))] : n \in ListLengths}
    \cup {[keywords |-> List(Items(MaxListLen))],
          [keywords_zh |-> List(Items(MaxListLen))],
          [keywords |-> Str("k1, k2"), keywords_zh |-> List(<<>>)],
          [keywords |-> Null],
          [keywords |-> List(<<1, 0>>)],
          [keywords |-> Obj([a |-> Num(1)])]}

LabelsObjects ==
    {[labels |-> List(Items(n)), labels_zh |-> List(Items(n))] : n \in ListLengths}
    \cup {[labels |-> List(Items(MaxListLen))],
          [labels_zh |-> List(Items(MaxListLen))],
          [labels |-> Str("l1, l2"), labels_zh |-> List(<<>>)],
          [labels |-> Null],
          [labels |-> List(<<1, 0>>)],
          [labels |-> Obj([a |-> Num(1)])]}

KeywordsTexts == PlainTexts \cup {ObjText(o) : o \in KeywordsObjects}

LabelsTexts == PlainTexts \cup {ObjText(o) : o \in LabelsObjects}

CommentObjects ==
    {[key_points |-> List(<<1, 2>>), reading_notes |-> Str("n"), importance |-> Str("high")],
     [reading_notes |-> Str("n")],
     [importance |-> Str("critical")],
     [key_points |-> Str("k")]}

CommentTexts == {<<Junk>>, <<Val(List(<<1>>))>>} \cup {ObjText(o) : o \in CommentObjects}

Http(texts) == HttpFailures \cup {HttpOk(text) : text \in texts}

\* A small choice of answers for the runs that mix the four operations.
CoreTexts(kind) ==
    {<<Junk>>, <<Val(List(<<1>>))>>}
    \cup CASE kind = "classification" ->
                {ObjText([category |-> Str("banana")]),
                 ObjText([category |-> Str("robotics"), confidence |-> Num(9)])}
           [] kind = "keywords" ->
                {ObjText([keywords |-> List(Items(KeywordsCap + 1))])}
           [] kind = "labels" ->
                {ObjText([labels |-> List(Items(LabelsCap + 1))])}
           [] OTHER ->
                {ObjText([importance |-> Str("high")])}

CoreHttp(kind) == {[kind |-> "timeout", text |-> <<>>]} \cup {HttpOk(text) : text \in CoreTexts(kind)}

(***************************************************************************)
(* process_paper and the loop of step3_llm_process                         *)
(***************************************************************************)
\* The papers of a batch.
MaxPapers == 3

\* generate_comments(..., max_paragraphs: int = 20, ...)
DefaultMaxParagraphs == 20

\* A paper of the batch: its HF entry and its ar5iv content, if any;
\* abstract tells whether content.abstract is a non-empty string.
Paper(paper_id, has_content, content, abstract) ==
    [paper_id |-> paper_id, has_content |-> has_content, content |-> content,
     abstract |-> has_content /\ abstract]

\* The i-th paper of the batch: a paper with content, a paper without, a
\* paper with content whose id differs from the first one's in the dot
\* only, then papers whose content has no abstract.
PaperAt(i) ==
    CASE i = 1 -> Paper("2401.07", TRUE, DocTies, TRUE)
      [] i = 2 -> Paper("2401_07", FALSE, DocEmpty, FALSE)
      [] i = 3 -> Paper("2401_07", TRUE, DocTies, TRUE)
      [] OTHER -> Paper("2401.07", TRUE, DocDeep, FALSE)

Batch == [i \in 1..MaxPapers |-> PaperAt(i)]

\* result = {"paper_id": paper_id, "classification": None, ...}
NoAnnotations == [k \in Kinds |-> NoResult]

\* FullPaper(paper_id=..., classification=..., keywords=..., ...)
FullPaper(paper, annotations) ==
    [paper_id       |-> paper.paper_id,
     classification |-> annotations["classification"],
     keywords       |-> annotations["keywords"],
     labels         |-> annotations["labels"],
     comments       |-> annotations["comments"]]

\* settings.get_processed_file(paper_id)
get_processed_file(paper_id) == SafeId(paper_id)

ProcessedFiles == {get_processed_file(paper_id) : paper_id \in PaperIds}

\* full.model_dump() as save_json writes it.
DumpFullPaper(full) ==
    [paper_id       |-> full.paper_id,
     classification |-> json_dumps(full.classification),
     keywords       |-> json_dumps(full.keywords),
     labels         |-> json_dumps(full.labels),
     comments       |-> json_dumps(full.comments)]

\* step3_llm_process(papers, contents, force) is entered.
StartRun(force) ==
    [active |-> TRUE, force |-> force, papers |-> Batch, pc |-> "next",
     paper |-> PaperAt(1), result |-> NoAnnotations,
     keyword_list |-> <<>>, prompt_keywords |-> <<>>, ops |-> <<>>,
     full_papers |-> <<>>, errors |-> <<>>,
     processed |-> [f \in ProcessedFiles |-> Null]]

\* except Exception: the error is recorded and the loop goes on.
PaperFailed(r) ==
    [r EXCEPT !.errors = Append(@, r.paper.paper_id), !.pc = "next"]

\* ClassificationResult(**result["classification"]) if
\* result.get("classification") else None, and the same for the others.
Rebuild(kind, res) ==
    IF res = NoResult THEN Ok(NoResult)
    ELSE IF kind = "comments" THEN CommentsResult(res.f, 0)
    ELSE Model(kind, res.f, 0)

\* process_paper has returned: the FullPaper is built, saved and appended.
Merge(r) ==
    LET built == [k \in Kinds |-> Rebuild(k, r.result[k])]
        full == FullPaper(r.paper, [k \in Kinds |-> built[k].val])
    IN IF \E k \in Kinds : ~built[k].ok THEN PaperFailed(r)
       ELSE [r EXCEPT !.full_papers = Append(@, full),
                      !.processed[get_processed_file(r.paper.paper_id)] =
                          DumpFullPaper(full),
                      !.pc = "next"]

\* if classification: result["classification"] = classification.model_dump()
Annotated(r, kind, call) ==
    [r EXCEPT !.result[kind] =
                 IF call.outcome \in {"hit", "result"} THEN call.result ELSE NoResult,
              !.ops = Append(@, kind)]

\* Mutant of KeywordList: extract_labels is called without the keywords.
KeywordListEmpty(keywords) == <<>>

\* keyword_list = keywords.keywords if keywords else []
KeywordList(keywords) ==
    IF keywords = NoResult THEN <<>> ELSE keywords.f["keywords"].l

\* The loop takes the next paper; a paper without abstract gets a FullPaper
\* without annotations and no call of process_paper.
NextPaper ==
    /\ run.active /\ run.pc = "next" /\ run.papers # <<>>
    /\ LET paper == Head(run.papers)
           r == [run EXCEPT !.papers = Tail(@), !.paper = paper,
                            !.result = NoAnnotations,
                            !.keyword_list = <<>>, !.prompt_keywords = <<>>,
                            !.ops = <<>>]
       IN run' = IF ~paper.abstract
                 THEN [r EXCEPT !.full_papers =
                                   Append(@, FullPaper(paper, NoAnnotations))]
                 ELSE [r EXCEPT !.pc = "classification"]
    /\ UNCHANGED <<cache, stats, concurrency, calls, last, job, scraper>>

\* process_paper, step 1: classify_paper has returned.
PaperClassify(r, call) ==
    [Annotated(r, "classification", call) EXCEPT !.pc = "keywords"]

\* process_paper, step 2: extract_keywords has returned; the keyword list
\* for step 3.
PaperKeywords(r, call) ==
    LET a == Annotated(r, "keywords", call) IN
    [a EXCEPT !.keyword_list = KeywordList(a.result["keywords"]),
              !.pc = "labels"]

\* process_paper, step 3: extract_labels(paper_id, title, abstract,
\* keyword_list, force) has returned; the prompt joins the keywords it is
\* given.
PaperLabels(r, call) ==
    LET a == [Annotated(r, "labels", call) EXCEPT
                !.prompt_keywords = IF call.gens > 0 THEN r.keyword_list ELSE <<>>]
    IN IF a.paper.has_content THEN [a EXCEPT !.pc = "comments"] ELSE Merge(a)

\* process_paper, steps 1 to 3: the call of the operation the paper is at;
\* an exception leaves process_paper for the except clause of the loop.
PaperOperation(kind, http) ==
    /\ UNCHANGED scraper
    /\ run.active /\ run.pc = kind
    /\ OperationCall(kind, run.paper.paper_id, run.force, http)
    /\ run' = CASE last'.outcome = "raised"  -> PaperFailed(run)
                [] kind = "classification"   -> PaperClassify(run, last')
                [] kind = "keywords"         -> PaperKeywords(run, last')
                [] OTHER                     -> PaperLabels(run, last')

\* generate_comments has returned to process_paper.
AfterComments(r, call) ==
    IF call.outcome = "raised" THEN PaperFailed(r)
    ELSE Merge(Annotated(r, "comments", call))

\* process_paper, step 4: generate_comments(paper_id, content, force=force).
PaperComments ==
    /\ UNCHANGED scraper
    /\ run.active /\ run.pc = "comments"
    /\ StartCommentsCall(run.paper.paper_id, run.paper.content,
                         DefaultMaxParagraphs, run.force)
    /\ run' = IF last'.outcome = "pending" THEN [run EXCEPT !.pc = "gather"]
              ELSE AfterComments(run, last')

\* The paragraph tasks are done and generate_comments returns.
PaperCommentsDone ==
    /\ UNCHANGED scraper
    /\ run.active /\ run.pc = "gather"
    /\ FinishCommentsCall
    /\ run' = AfterComments(run, last')

(***************************************************************************)
(* _fetch_page of Ar5ivExtractor and of HFPapersScraper                    *)
(***************************************************************************)
\* The largest max_retries a scraper is built with (the default is 3).
MaxRetries == 3

\* wait_time = 120 * (retry_count + 1)
Ar5ivRateLimitWait == 120

\* await asyncio.sleep(10 * (retry_count + 1))
Ar5ivTimeoutWait == 10

\* wait_time = min(60 * (retry_count + 1), 300)
HFRateLimitWait == 60

HFRateLimitWaitMax == 300

\* await asyncio.sleep(5 * (retry_count + 1))
HFErrorWait == 5

\* What a request can end in: a status, asyncio.TimeoutError,
\* aiohttp.ClientError, any other exception.
Responses == {"200", "404", "429", "403", "500", "timeout", "client_error", "error"}

Sites == {"ar5iv", "hf"}

\* The end of one pass through _fetch_page: the seconds slept (0 for no
\* sleep), whether the function then calls itself with retry_count + 1,
\* and what it returns otherwise.
Pass(wait, retry, result) == [wait |-> wait, retry |-> retry, result |-> result]

\* Mutant of Ar5ivPass: the retry test of the 429 branch is off by one.
Ar5ivPassOffByOne(response, retry_count, max_retries) ==
    CASE response = "200" -> Pass(0, FALSE, "html")
      [] response = "429" ->
            Pass(Ar5ivRateLimitWait * (retry_count + 1), retry_count <= max_retries, "none")
      [] response = "timeout" ->
            IF retry_count < max_retries
            THEN Pass(Ar5ivTimeoutWait * (retry_count + 1), TRUE, "none")
            ELSE Pass(0, FALSE, "none")
      [] OTHER -> Pass(0, FALSE, "none")

\* Ar5ivExtractor._fetch_page: 200 returns the page; 429 sleeps and then
\* retries while retry_count < max_retries; a timeout sleeps and retries
\* while retry_count < max_retries; 404, any other status and any other
\* exception return None.
Ar5ivPass(response, retry_count, max_retries) ==
    CASE response = "200" -> Pass(0, FALSE, "html")
      [] response = "429" ->
            Pass(Ar5ivRateLimitWait * (retry_count + 1), retry_count < max_retries, "none")
      [] response = "timeout" ->
            IF retry_count < max_retries
            THEN Pass(Ar5ivTimeoutWait * (retry_count + 1), TRUE, "none")
            ELSE Pass(0, FALSE, "none")
      [] OTHER -> Pass(0, FALSE, "none")

\* Mutant of HFPass: a client error is not retried, as in Ar5ivExtractor.
HFPassNoClientRetry(response, retry_count, max_retries) ==
    CASE response = "200" -> Pass(0, FALSE, "html")
      [] response = "429" ->
            Pass(IF HFRateLimitWait * (retry_count + 1) < HFRateLimitWaitMax
                 THEN HFRateLimitWait * (retry_count + 1) ELSE HFRateLimitWaitMax,
                 retry_count < max_retries, "none")
      [] response = "timeout" ->
            IF retry_count < max_retries
            THEN Pass(HFErrorWait * (retry_count + 1), TRUE, "none")
            ELSE Pass(0, FALSE, "none")
      [] OTHER -> Pass(0, FALSE, "none")

\* HFPapersScraper._fetch_page: 200 returns the page; 429 sleeps and then
\* retries while retry_count < max_retries; a timeout and a client error
\* sleep and retry while retry_count < max_retries; 403, any other status
\* and any other exception return None.
HFPass(response, retry_count, max_retries) ==
    CASE response = "200" -> Pass(0, FALSE, "html")
      [] response = "429" ->
            Pass(IF HFRateLimitWait * (retry_count + 1) < HFRateLimitWaitMax
                 THEN HFRateLimitWait * (retry_count + 1) ELSE HFRateLimitWaitMax,
                 retry_count < max_retries, "none")
      [] response \in {"timeout", "client_error"} ->
            IF retry_count < max_retries
            THEN Pass(HFErrorWait * (retry_count + 1), TRUE, "none")
            ELSE Pass(0, FALSE, "none")
      [] OTHER -> Pass(0, FALSE, "none")

\* _fetch_page(url) is called: retry_count = 0.
StartFetch(site, max_retries) ==
    [kind |-> "fetch", site |-> site, max_retries |-> max_retries,
     pc |-> "request", retry_count |-> 0, requests |-> 0,
     log |-> <<>>, sleeps |-> <<>>, retry |-> FALSE, result |-> "pending"]

\* session.get(url) and the handling of its outcome, up to the sleep or
\* the return.
Request(response) ==
    /\ scraper.kind = "fetch" /\ scraper.pc = "request"
    /\ LET pass == IF scraper.site = "ar5iv"
                   THEN Ar5ivPass(response, scraper.retry_count, scraper.max_retries)
                   ELSE HFPass(response, scraper.retry_count, scraper.max_retries)
           sent == [scraper EXCEPT !.requests = @ + 1, !.log = Append(@, response)]
       IN scraper' =
            IF pass.wait > 0
            THEN [sent EXCEPT !.pc = "sleep", !.retry = pass.retry,
                              !.sleeps = Append(@, [wait |-> pass.wait,
                                                    retry_count |-> scraper.retry_count,
                                                    response |-> response])]
            ELSE [sent EXCEPT !.pc = "done", !.result = pass.result]
    /\ UNCHANGED llmVars

\* asyncio.sleep is over: _fetch_page calls itself with retry_count + 1, or
\* returns None.
Wake ==
    /\ scraper.kind = "fetch" /\ scraper.pc = "sleep"
    /\ scraper' = IF scraper.retry
                  THEN [scraper EXCEPT !.pc = "request", !.retry_count = @ + 1,
                                       !.retry = FALSE]
                  ELSE [scraper EXCEPT !.pc = "done", !.result = "none"]
    /\ UNCHANGED llmVars

(***************************************************************************)
(* extract_paper and extract_papers of Ar5ivExtractor                      *)
(***************************************************************************)
\* settings.get_ar5iv_file(paper_id)
get_ar5iv_file(paper_id) == SafeId(paper_id)

Ar5ivFiles == {get_ar5iv_file(paper_id) : paper_id \in PaperIds}

\* A nested model read from a dict: the required keys hold strings, a
\* key that is absent takes its default, other keys are ignored.
ModelFrom(v, required, defaults) ==
    IF /\ v.t = "obj" /\ required \subseteq DOMAIN v.f
       /\ \A k \in required : IsStr(v.f[k])
    THEN Ok(Obj([k \in required \cup DOMAIN defaults |->
                    IF k \in DOMAIN v.f THEN v.f[k] ELSE defaults[k]]))
    ELSE Raised

\* List[Figure], List[Table], List[Equation]
ModelsFrom(v, required, defaults) ==
    IF v = List(<<>>) THEN Ok(Objs(<<>>))
    ELSE IF /\ v.t = "objs"
            /\ \A i \in DOMAIN v.l : ModelFrom(v.l[i], required, defaults).ok
    THEN Ok(Objs([i \in DOMAIN v.l |-> ModelFrom(v.l[i], required, defaults).val]))
    ELSE Raised

FigureDefaults == [alt |-> Null, caption |-> Null, label |-> Null]

TableDefaults ==
    [caption |-> Null, headers |-> List(<<>>), rows |-> List(<<>>), label |-> Null]

EquationDefaults == [latex |-> Null, mathml |-> Null, label |-> Null]

\* Section(**data): title is required, level defaults to 2, paragraphs
\* and subsections to empty lists; the subsections are Sections.
RECURSIVE SectionFrom(_)
SectionFrom(v) ==
    IF v.t # "obj" THEN Raised
    ELSE LET level == Get(v, "level", Num(2))
             paragraphs == Get(v, "paragraphs", Objs(<<>>))
             subsections == Get(v, "subsections", Objs(<<>>))
             subs == [i \in DOMAIN subsections.l |-> SectionFrom(subsections.l[i])]
         IN IF \/ "title" \notin DOMAIN v.f
               \/ ~IsStr(v.f["title"])
               \/ level.t # "num"
               \/ paragraphs.t # "objs"
               \/ \E i \in DOMAIN paragraphs.l : ~IsStr(paragraphs.l[i])
               \/ subsections.t # "objs"
               \/ \E i \in DOMAIN subs : ~subs[i].ok
            THEN Raised
            ELSE Ok(Obj([title       |-> v.f["title"],
                         level       |-> level,
                         paragraphs  |-> paragraphs,
                         subsections |-> Objs([i \in DOMAIN subs |-> subs[i].val])]))

\* List[Section]
SectionsFrom(v) ==
    IF v = List(<<>>) THEN Ok(Objs(<<>>))
    ELSE IF v.t = "objs" /\ \A i \in DOMAIN v.l : SectionFrom(v.l[i]).ok
    THEN Ok(Objs([i \in DOMAIN v.l |-> SectionFrom(v.l[i]).val]))
    ELSE Raised

\* The value of a field of the constructor's arguments, or its default.
Field(data, key, default) == IF key \in DOMAIN data THEN data[key] ELSE default

\* Mutant of Ar5ivContent: the constructor takes the instant of the
\* construction whatever extracted_at it is given.
Ar5ivContentStamped(data, now) ==
    IF HasAll(data, {"paper_id", "title"})
       /\ IsStr(data["paper_id"]) /\ IsStr(data["title"])
    THEN Ok(Obj([k \in DOMAIN data \cup {"extracted_at"} |->
                    IF k = "extracted_at" THEN DateTime(now) ELSE data[k]]))
    ELSE Raised

\* Ar5ivContent(**data): paper_id and title are required strings, the
\* lists default to empty lists, abstract and full_text to None,
\* extracted_at to the instant of the construction.
Ar5ivContent(data, now) ==
    LET authors == Field(data, "authors", List(<<>>))
        affiliations == Field(data, "affiliations", List(<<>>))
        abstract == Field(data, "abstract", Null)
        sections == SectionsFrom(Field(data, "sections", Objs(<<>>)))
        figures == ModelsFrom(Field(data, "figures", Objs(<<>>)), {"src"}, FigureDefaults)
        tables == ModelsFrom(Field(data, "tables", Objs(<<>>)), {}, TableDefaults)
        equations == ModelsFrom(Field(data, "equations", Objs(<<>>)), {}, EquationDefaults)
        references == Field(data, "references", List(<<>>))
        full_text == Field(data, "full_text", Null)
        at == Field(data, "extracted_at", DateTime(now))
    IN IF /\ HasAll(data, {"paper_id", "title"})
          /\ IsStr(data["paper_id"]) /\ IsStr(data["title"])
          /\ IsStrList(authors) /\ IsStrList(affiliations) /\ IsStrList(references)
          /\ IsOptStr(abstract) /\ IsOptStr(full_text)
          /\ sections.ok /\ figures.ok /\ tables.ok /\ equations.ok
          /\ IsDateTime(at)
       THEN Ok(Obj([paper_id     |-> data["paper_id"],
                    title        |-> data["title"],
                    authors      |-> authors,
                    affiliations |-> affiliations,
                    abstract     |-> abstract,
                    sections     |-> sections.val,
                    figures      |-> figures.val,
                    tables       |-> tables.val,
                    equations    |-> equations.val,
                    references   |-> references,
                    full_text    |-> full_text,
                    extracted_at |-> AsDateTime(at)]))
       ELSE Raised

\* The paper ids of a batch.
ExtractIds == [i \in 1..MaxPapers |-> IF i % 2 = 1 THEN "2401.07" ELSE "2401_07"]

\* What a task of the batch holds once it is done: the content, None, or
\* the exception that gather caught.
ExtractContent(content) == [kind |-> "content", val |-> content]

ExtractNone == [kind |-> "none", val |-> Null]

ExtractException == [kind |-> "exception", val |-> Null]

RECURSIVE CollectExtracted(_)
\* Mutant of CollectExtracted: the first exception ends the collection, as
\* a gather without return_exceptions would.
CollectExtractedFailFast(tasks) ==
    IF \E i \in DOMAIN tasks : tasks[i].res.kind = "exception" THEN <<>>
    ELSE [i \in DOMAIN tasks |-> tasks[i].res.val]

\* for i, result in enumerate(extracted): an exception is logged, a
\* content is appended, None is passed over.
CollectExtracted(tasks) ==
    IF tasks = <<>> THEN <<>>
    ELSE IF Head(tasks).res.kind = "content"
         THEN <<Head(tasks).res.val>> \o CollectExtracted(Tail(tasks))
         ELSE CollectExtracted(Tail(tasks))

\* extract_papers(paper_ids, force) up to the gather: one task per id, the
\* semaphore at self.concurrency.
StartExtract(file, force, extractor_concurrency) ==
    [kind |-> "extract", force |-> force, pc |-> "gather",
     files |-> [f \in Ar5ivFiles |-> file],
     sem |-> extractor_concurrency, permits |-> extractor_concurrency,
     tasks |-> [i \in DOMAIN ExtractIds |->
                   [paper_id |-> ExtractIds[i], st |-> "waiting", res |-> ExtractNone]],
     success_count |-> 0, failure_count |-> 0, clock |-> 0, results |-> <<>>]

\* A task of the batch is done and leaves the semaphore.
ExtractDone(sc, i, res) ==
    [sc EXCEPT !.tasks[i].st = "done", !.tasks[i].res = res, !.sem = Released(@)]

\* bounded_extract enters `async with semaphore`; extract_paper checks the
\* cache: a hit returns the cached content, load_json or the constructor
\* may raise, a miss goes on to the fetch.
BeginExtract(i) ==
    /\ scraper.kind = "extract" /\ scraper.pc = "gather"
    /\ i \in DOMAIN scraper.tasks
    /\ scraper.tasks[i].st = "waiting"
    /\ CanAcquire(scraper.sem)
    /\ LET file == get_ar5iv_file(scraper.tasks[i].paper_id)
           now == scraper.clock + 1
           data == CheckCache(scraper.files[file], scraper.force)
           chk == FromCache(data, Ar5ivContent(data.data, now))
           sc == [scraper EXCEPT !.sem = Acquired(@), !.clock = now]
       IN scraper' =
            CASE chk.st = "hit"    -> ExtractDone(sc, i, ExtractContent(chk.res))
              [] chk.st = "raised" -> ExtractDone(sc, i, ExtractException)
              [] OTHER             -> [sc EXCEPT !.tasks[i].st = "fetching"]
    /\ UNCHANGED llmVars

\* extract_paper from the fetch on: no page or no content counts a
\* failure and returns None; a content is saved and counted; a write that
\* fails raises out of extract_paper.
FinishExtract(i, html, parsed, disk_ok) ==
    /\ scraper.kind = "extract" /\ scraper.pc = "gather"
    /\ i \in DOMAIN scraper.tasks
    /\ scraper.tasks[i].st = "fetching"
    /\ LET paper_id == scraper.tasks[i].paper_id
           file == get_ar5iv_file(paper_id)
           now == scraper.clock + 1
           content == Ar5ivContent([paper_id |-> Str(paper_id), title |-> Str("t")], now).val
           sc == [scraper EXCEPT !.clock = now]
       IN scraper' =
            IF ~html \/ ~parsed
            THEN ExtractDone([sc EXCEPT !.failure_count = @ + 1], i, ExtractNone)
            ELSE IF ~disk_ok
            THEN ExtractDone(sc, i, ExtractException)
            ELSE ExtractDone([sc EXCEPT !.files[file] = save_json(content),
                                        !.success_count = @ + 1],
                             i, ExtractContent(content))
    /\ UNCHANGED llmVars

\* gather has every task's outcome: the contents are collected and
\* returned.
ReturnExtracted ==
    /\ scraper.kind = "extract" /\ scraper.pc = "gather"
    /\ \A i \in DOMAIN scraper.tasks : scraper.tasks[i].st = "done"
    /\ scraper' = [scraper EXCEPT !.pc = "returned",
                                  !.results = CollectExtracted(scraper.tasks)]
    /\ UNCHANGED llmVars

(***************************************************************************)
(* parse_html of Ar5ivExtractor: titles, sections, full text               *)
(***************************************************************************)
\* The texts of headings and of the page title, each with its tokens:
\* words, dashes and runs of whitespace (" ").
TextTokens ==
    [text \in {"", "Intro", "Method", "References", " REFERENCES  and notes ",
               "REFERENCES and notes", "Bibliography", "Appendixes",
               "7 References", "Referenced work", "Unknown Title",
               "Intro - ar5iv"} |->
        CASE text = ""                         -> <<>>
          [] text = "Intro"                    -> <<"Intro">>
          [] text = "Method"                   -> <<"Method">>
          [] text = "References"               -> <<"References">>
          [] text = " REFERENCES  and notes "  ->
                <<" ", "REFERENCES", " ", " ", "and", " ", "notes", " ">>
          [] text = "REFERENCES and notes"     -> <<"REFERENCES", " ", "and", " ", "notes">>
          [] text = "Bibliography"             -> <<"Bibliography">>
          [] text = "Appendixes"               -> <<"Appendixes">>
          [] text = "7 References"             -> <<"7", " ", "References">>
          [] text = "Referenced work"          -> <<"Referenced", " ", "work">>
          [] text = "Unknown Title"            -> <<"Unknown", " ", "Title">>
          [] OTHER                             -> <<"Intro", " ", "-", " ", "ar5iv">>]

\* The text that is made of the tokens.
TextOf(tokens) == CHOOSE text \in DOMAIN TextTokens : TextTokens[text] = tokens

\* str.lower() of a word.
Lower(word) ==
    CASE word \in {"References", "REFERENCES"} -> "references"
      [] word = "Bibliography"                 -> "bibliography"
      [] word = "Appendixes"                   -> "appendixes"
      [] word = "Referenced"                   -> "referenced"
      [] word = "Intro"                        -> "intro"
      [] word = "Method"                       -> "method"
      [] OTHER                                 -> word

\* text.split(): the words, whitespace dropped.
RECURSIVE Split(_)
Split(tokens) ==
    IF tokens = <<>> THEN <<>>
    ELSE (IF Head(tokens) = " " THEN <<>> ELSE <<Head(tokens)>>) \o Split(Tail(tokens))

\* " ".join(words)
Join(words) ==
    [i \in 1..(IF words = <<>> THEN 0 ELSE 2 * Len(words) - 1) |->
        IF i % 2 = 1 THEN words[(i + 1) \div 2] ELSE " "]

\* clean_text(text): "" for an empty text, else the words joined by single
\* blanks (the texts of the model hold no control characters).
clean_text(text) == TextOf(Join(Split(TextTokens[text])))

\* The lower-case words that begin with references, bibliography or
\* appendix.
ReferenceWords == {"references", "bibliography", "appendix", "appendixes"}

\* Mutant of IsReferencesTitle: no title is skipped.
IsReferencesTitleNever(title) == FALSE

\* re.match(r"^(references|bibliography|appendix)", title, re.I)
IsReferencesTitle(title) ==
    /\ TextTokens[title] # <<>>
    /\ Lower(Head(TextTokens[title])) \in ReferenceWords

\* re.sub(r"\s*-\s*ar5iv.*$", "", text, flags=re.I): the text up to the
\* first dash that ar5iv follows, the whitespace before the dash dropped.
StripSiteSuffix(text) ==
    LET tokens == TextTokens[text]
        dashes == {i \in DOMAIN tokens :
                      /\ tokens[i] = "-"
                      /\ \E j \in DOMAIN tokens :
                            /\ j > i /\ Lower(tokens[j]) = "ar5iv"
                            /\ \A k \in (i + 1)..(j - 1) : tokens[k] = " "}
    IN IF dashes = {} THEN text
       ELSE LET dash == CHOOSE i \in dashes : \A j \in dashes : i <= j
                kept == {i \in 0..(dash - 1) :
                            \A k \in (i + 1)..(dash - 1) : tokens[k] = " "}
            IN TextOf(SubSeq(tokens, 1, CHOOSE i \in kept : \A j \in kept : i <= j))

\* An element that may be absent (select_one gives None) and its text.
NoElement == [has |-> FALSE, text |-> ""]

Element(text) == [has |-> TRUE, text |-> text]

\* A <section> of the page: its class, its own heading (.ltx_title), the
\* p.ltx_p that are its children, the p.ltx_p inside its ltx_para children,
\* and the sections nested in it, in document order.
Container(class, heading, ps, paras, children) ==
    [class |-> class, heading |-> heading, ps |-> ps, paras |-> paras,
     children |-> children]

\* The sections under a list of sections, in document order.
RECURSIVE Descendants(_)
Descendants(containers) ==
    IF containers = <<>> THEN <<>>
    ELSE <<Head(containers)>> \o Descendants(Head(containers).children)
         \o Descendants(Tail(containers))

\* elem.select("section.ltx_subsection") and soup.select(
\* "section.ltx_section"): every matching section below, at any depth.
RECURSIVE Select(_, _)
Select(containers, class) ==
    IF containers = <<>> THEN <<>>
    ELSE (IF Head(containers).class = class THEN <<Head(containers)>> ELSE <<>>)
         \o Select(Tail(containers), class)

\* elem.select_one(f"h{level}.ltx_title, .ltx_title"): the first element
\* of class ltx_title in the section, its own heading or, without one, the
\* first heading of a nested section.
TitleElement(elem) ==
    IF elem.heading.has THEN elem.heading
    ELSE LET below == Descendants(elem.children)
             titled == {i \in DOMAIN below : below[i].heading.has}
         IN IF titled = {} THEN NoElement
            ELSE below[CHOOSE i \in titled : \A j \in titled : i <= j].heading

\* len(text) > 10
MinParagraphLen == 10

\* The paragraphs kept: if text and len(text) > 10.
RECURSIVE LongEnough(_)
LongEnough(texts) ==
    IF texts = <<>> THEN <<>>
    ELSE (IF Head(texts).n > MinParagraphLen THEN <<Head(texts)>> ELSE <<>>)
         \o LongEnough(Tail(texts))

\* Section(title=..., level=..., paragraphs=..., subsections=...)
SectionModel(title, level, paragraphs, subsections) ==
    Obj([title |-> Str(title), level |-> Num(level),
         paragraphs |-> Objs(paragraphs), subsections |-> Objs(subsections)])

\* The results that are not None.
RECURSIVE NotNone(_)
NotNone(results) ==
    IF results = <<>> THEN <<>>
    ELSE (IF Head(results) = Null THEN <<>> ELSE <<Head(results)>>)
         \o NotNone(Tail(results))

\* _parse_section(elem, level): None without a title element or for a
\* title of references, bibliography or appendix; else the section with
\* its paragraphs and the sections parsed from every ltx_subsection below
\* it.
RECURSIVE parse_section(_, _)
parse_section(elem, level) ==
    LET title_elem == TitleElement(elem)
        title == clean_text(title_elem.text)
        direct == LongEnough(elem.ps)
        paragraphs == IF direct # <<>> THEN direct ELSE LongEnough(elem.paras)
        subs == Select(Descendants(elem.children), "ltx_subsection")
    IN IF ~title_elem.has THEN Null
       ELSE IF IsReferencesTitle(title) THEN Null
       ELSE SectionModel(title, level, paragraphs,
                         NotNone([i \in DOMAIN subs |-> parse_section(subs[i], level + 1)]))

\* _extract_sections(soup): every section.ltx_section of the page parsed at
\* level 2.
extract_sections(soup) ==
    LET found == Select(Descendants(soup.sections), "ltx_section")
    IN NotNone([i \in DOMAIN found |-> parse_section(found[i], 2)])

\* A line of the full text: a heading ("#" * level + " " + title), a
\* paragraph, or an empty line.
HeadingLine(section) == [level |-> section.f["level"].n, text |-> section.f["title"]]

TextLine(text) == [level |-> 0, text |-> text]

\* extract_section_text of _extract_full_text: the heading, an empty
\* line, each paragraph and an empty line, then the subsections.
RECURSIVE extract_section_text(_)
extract_section_text(section) ==
    <<HeadingLine(section), TextLine(Str(""))>>
    \o Concat([i \in DOMAIN section.f["paragraphs"].l |->
                  <<TextLine(section.f["paragraphs"].l[i]), TextLine(Str(""))>>])
    \o Concat([i \in DOMAIN section.f["subsections"].l |->
                  extract_section_text(section.f["subsections"].l[i])])

\* _extract_full_text(sections): the lines that "\n".join puts together.
extract_full_text(sections) ==
    Concat([i \in DOMAIN sections |-> extract_section_text(sections[i])])

\* The full text as a string: its lines.
FullText(lines) == [t |-> "str", s |-> "full_text", n |-> 0, l |-> lines, f |-> NoFields]

\* _extract_title(soup): the h1.ltx_title cleaned; without one the <title>
\* with its site suffix removed; without either "Unknown Title".
extract_title(soup) ==
    IF soup.h1.has THEN clean_text(soup.h1.text)
    ELSE IF soup.title_tag.has THEN clean_text(StripSiteSuffix(soup.title_tag.text))
    ELSE "Unknown Title"

\* The names longer than one character.
RECURSIVE LongNames(_)
LongNames(names) ==
    IF names = <<>> THEN <<>>
    ELSE (IF Head(names) > 1 THEN <<Head(names)>> ELSE <<>>) \o LongNames(Tail(names))

\* _extract_authors(soup): the .ltx_author names of more than one
\* character, and without any the .ltx_personname ones; a name is known
\* by its length.
extract_authors(soup) ==
    IF LongNames(soup.ltx_author) # <<>> THEN List(LongNames(soup.ltx_author))
    ELSE List(LongNames(soup.ltx_personname))

\* _extract_abstract(soup): None without an .ltx_abstract element.
extract_abstract(soup) ==
    IF soup.ltx_abstract.has THEN Text(soup.ltx_abstract.text, 50) ELSE Null

\* The steps of parse_html that can raise, each named by the field it
\* fills; "soup" is the construction of the BeautifulSoup tree.
ParseSteps ==
    {"soup", "title", "authors", "affiliations", "abstract", "sections", "figures",
     "tables", "equations", "references", "full_text"}

\* The keyword arguments parse_html hands to Ar5ivContent.
ParsedFields(soup, paper_id) ==
    LET sections == extract_sections(soup)
    IN [paper_id     |-> paper_id,
        title        |-> Str(extract_title(soup)),
        authors      |-> extract_authors(soup),
        affiliations |-> soup.affiliations,
        abstract     |-> extract_abstract(soup),
        sections     |-> Objs(sections),
        figures      |-> soup.figures,
        tables       |-> soup.tables,
        equations    |-> soup.equations,
        references   |-> soup.references,
        full_text    |-> FullText(extract_full_text(sections))]

\* Mutant of parse_html: an extractor that raises leaves its field at the
\* default and the Document is built from the others.
parse_html_partial(soup, paper_id, now) ==
    LET fields == ParsedFields(soup, paper_id)
        kept == [k \in DOMAIN fields \ {soup.raises} |-> fields[k]]
        data == IF soup.raises = "title"
                THEN [k \in DOMAIN fields |->
                         IF k = "title" THEN Str("Unknown Title") ELSE fields[k]]
                ELSE kept
        built == Ar5ivContent(data, now)
    IN IF soup.raises = "soup" \/ ~built.ok THEN Null ELSE built.val

\* parse_html(html, paper_id): the Document built from every extractor's
\* value, or None when a step or the constructor raises (except Exception).
parse_html(soup, paper_id, now) ==
    LET built == Ar5ivContent(ParsedFields(soup, paper_id), now)
    IN IF soup.raises # "none" \/ ~built.ok THEN Null ELSE built.val

\* A Section model as get_all_paragraphs reads it.
RECURSIVE SectionOf(_)
SectionOf(section) ==
    Section(section.f["title"].s, section.f["paragraphs"].l,
            [i \in DOMAIN section.f["subsections"].l |->
                SectionOf(section.f["subsections"].l[i])])

\* The Document as get_all_paragraphs reads it.
ContentOf(content) ==
    [title |-> content.f["title"].s,
     sections |-> [i \in DOMAIN content.f["sections"].l |->
                      SectionOf(content.f["sections"].l[i])]]

(***************************************************************************)
(* Pages                                                                   *)
(***************************************************************************)
\* A paragraph of the page: long enough to be kept, or too short.
Para(id) == Text(id, 40)

ShortPara(id) == Text(id, 5)

Sub(heading, ps, paras, children) ==
    Container("ltx_subsection", Element(heading), ps, paras, children)

Sec(heading, ps, paras, children) ==
    Container("ltx_section", Element(heading), ps, paras, children)

\* The section layouts of the pages: none; a References section beside an
\* ordinary one; References subsections under an ordinary section, one
\* level and two levels down; a section without a heading of its own
\* above a References subsection; titles that only contain the word; a
\* References section that holds sections of its own; paragraphs inside
\* ltx_para containers and paragraphs too short to keep.
SectionLayouts ==
    {<<>>,
     <<Sec("Intro", <<Para("i1")>>, <<>>, <<>>),
       Sec("References", <<Para("r1")>>, <<Para("r2")>>, <<>>)>>,
     <<Sec("Intro", <<>>, <<Para("i1"), ShortPara("i2")>>,
           <<Sub("Method", <<Para("m1")>>, <<>>, <<>>),
             Sub(" REFERENCES  and notes ", <<>>, <<Para("r1")>>, <<>>),
             Sub("Bibliography", <<Para("b1")>>, <<>>, <<>>)>>)>>,
     <<Sec("Intro", <<Para("i1")>>, <<>>,
           <<Sub("Method", <<Para("m1")>>, <<>>,
                 <<Sub("Appendixes", <<Para("a1")>>, <<>>, <<>>)>>)>>)>>,
     <<Container("ltx_section", NoElement, <<Para("i1")>>, <<>>,
                 <<Sub("References", <<Para("r1")>>, <<>>, <<>>),
                   Sub("Method", <<Para("m1")>>, <<>>, <<>>)>>),
       Sec("Method", <<ShortPara("m2")>>, <<Para("m3")>>, <<>>)>>,
     <<Sec("7 References", <<Para("n1")>>, <<>>, <<>>),
       Sec("Referenced work", <<Para("w1")>>, <<>>,
           <<Container("ltx_subsection", NoElement, <<Para("u1")>>, <<>>, <<>>)>>)>>,
     <<Sec("Bibliography", <<Para("b1")>>, <<>>,
           <<Sec("Intro", <<Para("i1")>>, <<>>, <<>>),
             Sub("Method", <<Para("m1")>>, <<>>, <<>>)>>)>>,
     <<Sec("", <<Para("e1")>>, <<>>, <<>>),
       Sec("Method", <<>>, <<>>,
           <<Sub("Intro", <<Para("i1")>>, <<>>,
                 <<Sub("References", <<Para("r1")>>, <<>>, <<>>)>>)>>)>>}

\* The rest of a page: authors, contacts, abstract, figures, tables,
\* equations and bibliography items, all present or all absent.
RichPage ==
    [ltx_author |-> <<1>>, ltx_personname |-> <<5, 1>>,
     affiliations |-> List(<<3>>),
     ltx_abstract |-> Element("abstract"),
     figures |-> Objs(<<Obj([src |-> Str("fig1.png"), alt |-> Null,
                             caption |-> Str("caption"), label |-> Null])>>),
     tables |-> Objs(<<Obj([caption |-> Null, headers |-> List(<<2>>),
                            rows |-> List(<<>>), label |-> Null])>>),
     equations |-> Objs(<<Obj([latex |-> Str("x^2"), mathml |-> Str("<math>"),
                               label |-> Null])>>),
     references |-> List(<<7>>)]

PlainPage ==
    [ltx_author |-> <<>>, ltx_personname |-> <<>>,
     affiliations |-> List(<<>>),
     ltx_abstract |-> NoElement,
     figures |-> Objs(<<>>), tables |-> Objs(<<>>), equations |-> Objs(<<>>),
     references |-> List(<<>>)]

\* A page: its h1.ltx_title, its <title>, its sections, the rest, and the
\* step of parse_html that raises on it ("none" when none does).
Page(h1, title_tag, sections, rest, raises) ==
    [h1 |-> h1, title_tag |-> title_tag, sections |-> sections, raises |-> raises,
     ltx_author |-> rest.ltx_author, ltx_personname |-> rest.ltx_personname,
     affiliations |-> rest.affiliations, ltx_abstract |-> rest.ltx_abstract,
     figures |-> rest.figures, tables |-> rest.tables, equations |-> rest.equations,
     references |-> rest.references]

Pages ==
    {Page(h1, title_tag, sections, rest, raises) :
        h1 \in {NoElement, Element(""), Element(" REFERENCES  and notes ")},
        title_tag \in {NoElement, Element("Intro - ar5iv")},
        sections \in SectionLayouts,
        rest \in {RichPage, PlainPage},
        raises \in {"none", "soup", "sections", "full_text"}}

\* The paper_id handed to parse_html: an id, or a value that is no string.
ParseIds == {Str("2401.07"), Null}

(***************************************************************************)
(* parse_html, then the cache write and the later cache read of            *)
(* extract_paper                                                           *)
(***************************************************************************)
\* extract_paper has the page of a paper and is about to parse it.
StartParse(page, paper_id) ==
    [kind |-> "parse", pc |-> "parse", page |-> page, paper_id |-> paper_id,
     clock |-> 0, content |-> Null, paragraphs |-> <<>>,
     file |-> Missing, reloaded |-> Null]

\* extract_paper with the content parse_html gave: without a content the
\* call returns None, with one it goes on to save it.
AfterParse(sc, now, content) ==
    [sc EXCEPT !.clock = now,
               !.content = content,
               !.paragraphs = IF content = Null THEN <<>>
                              ELSE get_all_paragraphs(ContentOf(content)),
               !.pc = IF content = Null THEN "returned" ELSE "save"]

\* content = self.parse_html(html, paper_id)
ParseHtml ==
    /\ scraper.kind = "parse" /\ scraper.pc = "parse"
    /\ scraper' = AfterParse(scraper, scraper.clock + 1,
                             parse_html(scraper.page, scraper.paper_id, scraper.clock + 1))
    /\ UNCHANGED llmVars

\* await save_json(content.model_dump(), cache_file)
SaveContent ==
    /\ scraper.kind = "parse" /\ scraper.pc = "save"
    /\ scraper' = [scraper EXCEPT !.file = save_json(scraper.content), !.pc = "cached"]
    /\ UNCHANGED llmVars

\* A later extract_paper(paper_id, force=False): the cache file exists,
\* load_json reads it and Ar5ivContent(**data) is returned.
LoadContent ==
    /\ scraper.kind = "parse" /\ scraper.pc = "cached"
    /\ LET now == scraper.clock + 1
           data == CheckCache(scraper.file, FALSE)
           chk == FromCache(data, Ar5ivContent(data.data, now))
       IN scraper' = [scraper EXCEPT
              !.clock = now,
              !.reloaded = IF chk.st = "hit" THEN chk.res ELSE Null,
              !.pc = IF chk.st = "hit" THEN "reloaded" ELSE "refetch"]
    /\ UNCHANGED llmVars

(***************************************************************************)
(* ProxyManager (src/proxy_manager.py)                                     *)
(***************************************************************************)
\* float('inf'), the latency of a node that did not answer, in ms.
Infinity == 1000000

\* get_available_nodes(max_latency=1000)
MaxLatency == 1000

\* ProxyManager(max_fail_count=3)
DefaultMaxFailCount == 3

\* A ProxyNode's runtime state.
ProxyNode(is_available, latency, fail_count) ==
    [is_available |-> is_available, latency |-> latency, fail_count |-> fail_count]

\* The nodes as test_tcp_latency leaves them: answered fast, answered
\* after a failed earlier test, answered slowly, did not answer.
TestedNodes ==
    {ProxyNode(TRUE, 100, 0), ProxyNode(TRUE, 200, 1), ProxyNode(TRUE, 1500, 0),
     ProxyNode(FALSE, Infinity, 1)}

\* nodes.sort(key=lambda n: (not n.is_available, n.latency))
SortedByLatency(nodes) ==
    \A i, j \in DOMAIN nodes :
        i < j => \/ nodes[i].is_available /\ ~nodes[j].is_available
                 \/ /\ nodes[i].is_available = nodes[j].is_available
                    /\ nodes[i].latency <= nodes[j].latency

\* config.nodes after test_all_nodes.
NodeLists ==
    {nodes \in UNION {[1..n -> TestedNodes] : n \in 1..MaxNodes} : SortedByLatency(nodes)}

\* The positions in nodes of a selection of the nodes, in list order.
RECURSIVE NodePositions(_, _)
NodePositions(chosen, from) ==
    IF chosen = {} THEN <<>>
    ELSE IF from \in chosen
         THEN <<from>> \o NodePositions(chosen \ {from}, from + 1)
         ELSE NodePositions(chosen, from + 1)

\* ProxyConfig.get_available_nodes(): the nodes that are available with a
\* latency below max_latency, as their positions in config.nodes.
get_available_nodes(nodes) ==
    NodePositions({i \in DOMAIN nodes :
                  nodes[i].is_available /\ nodes[i].latency < MaxLatency}, 1)

\* ProxyManager after load_config and test_nodes: current_node is None (0)
\* or the position of the node in config.nodes, _node_index is a Python
\* index; streak counts the report_failure calls on the current node
\* since it became current or last succeeded, op logs the latest call.
StartProxy(nodes, auto_rotate, max_fail_count) ==
    [kind |-> "proxy", nodes |-> nodes, current_node |-> 0, node_index |-> 0,
     auto_rotate |-> auto_rotate, max_fail_count |-> max_fail_count,
     selected |-> FALSE, streak |-> 0,
     op |-> [name |-> "init", node |-> 0, streak |-> 0, available |-> 0]]

ProxyLog(name, pm) ==
    [name |-> name, node |-> pm.current_node, streak |-> pm.streak,
     available |-> Len(get_available_nodes(pm.nodes))]

\* min(available, key=lambda n: n.latency): the first node of the least
\* latency.
Fastest(nodes, available) ==
    CHOOSE i \in available :
        \A j \in available :
            nodes[i].latency < nodes[j].latency
            \/ (nodes[i].latency = nodes[j].latency /\ i <= j)

\* select_fastest(): RuntimeError without an available node; else the
\* fastest becomes current and _node_index its index in config.nodes.
select_fastest(pm) ==
    LET available == {i \in DOMAIN pm.nodes : pm.nodes[i].is_available}
    IN IF available = {} THEN [pm EXCEPT !.op = ProxyLog("select_raised", pm)]
       ELSE [pm EXCEPT !.current_node = Fastest(pm.nodes, available),
                       !.node_index = Fastest(pm.nodes, available) - 1,
                       !.selected = TRUE, !.streak = 0,
                       !.op = ProxyLog("select_fastest", pm)]

\* rotate_node(): None without an available node; else _node_index moves
\* on by one modulo the number of available nodes and the available node
\* at that index becomes current.
rotate_node(pm) ==
    LET available == get_available_nodes(pm.nodes)
        index == (pm.node_index + 1) % Len(available)
    IN IF available = <<>> THEN pm
       ELSE [pm EXCEPT !.node_index = index,
                       !.current_node = available[index + 1],
                       !.streak = IF available[index + 1] = pm.current_node
                                  THEN @ ELSE 0]

\* report_failure(): the current node's fail_count goes up; with
\* auto_rotate, at max_fail_count the node is marked unavailable and
\* rotate_node is called.
report_failure(pm) ==
    IF pm.current_node = 0 THEN pm
    ELSE LET counted == [pm EXCEPT !.nodes[pm.current_node].fail_count = @ + 1,
                                   !.streak = @ + 1]
         IN IF pm.auto_rotate
               /\ counted.nodes[pm.current_node].fail_count >= pm.max_fail_count
            THEN rotate_node([counted EXCEPT !.nodes[pm.current_node].is_available = FALSE])
            ELSE counted

\* report_success(): the current node's fail_count is 0 again.
report_success(pm) ==
    IF pm.current_node = 0 THEN pm
    ELSE [pm EXCEPT !.nodes[pm.current_node].fail_count = 0, !.streak = 0]

SelectFastest ==
    /\ scraper.kind = "proxy"
    /\ scraper' = select_fastest(scraper)
    /\ UNCHANGED llmVars

RotateNode ==
    /\ scraper.kind = "proxy"
    /\ scraper' = [rotate_node(scraper) EXCEPT !.op = ProxyLog("rotate_node", scraper)]
    /\ UNCHANGED llmVars

ReportFailure ==
    /\ scraper.kind = "proxy"
    /\ scraper.current_node # 0 =>
          scraper.nodes[scraper.current_node].fail_count < MaxFailCount
    /\ scraper' = [report_failure(scraper) EXCEPT
                      !.op = [ProxyLog("report_failure", scraper) EXCEPT
                                 !.streak = scraper.streak + 1]]
    /\ UNCHANGED llmVars

ReportSuccess ==
    /\ scraper.kind = "proxy"
    /\ scraper' = [report_success(scraper) EXCEPT !.op = ProxyLog("report_success", scraper)]
    /\ UNCHANGED llmVars

(***************************************************************************)
(* Specifications                                                          *)
(***************************************************************************)
\* LLMProcessor.__init__(concurrency=3)
DefaultConcurrency == 3

\* The state after construction: every cache file as a run can find it, the
\* counters at zero.
InitWith(files, concurrencies) ==
    /\ \E file \in files : cache = [c \in CacheFiles |-> file]
    /\ stats = [k \in Kinds |-> [success |-> 0, failure |-> 0]]
    /\ concurrency \in concurrencies
    /\ calls = 0
    /\ last = NoCall
    /\ job = NoJob
    /\ run = NoRun
    /\ scraper = NoScraper

Init == InitWith(StaleFiles, {DefaultConcurrency})

\* The paragraph tasks of the generate_comments call in progress.
CommentTasks(https) ==
    \/ \E i \in 1..Len(job.tasks) : AcquireSemaphore(i)
    \/ \E i \in 1..Len(job.tasks), http \in https : CompleteParagraph(i, http)
    \/ FinishComments

\* The four operations, called in any order on any paper.
Next ==
    \/ \E paper_id \in PaperIds, force \in BOOLEAN, http \in CoreHttp("classification") :
           classify_paper(paper_id, force, http)
    \/ \E paper_id \in PaperIds, force \in BOOLEAN, http \in CoreHttp("keywords") :
           extract_keywords(paper_id, force, http)
    \/ \E paper_id \in PaperIds, force \in BOOLEAN, http \in CoreHttp("labels") :
           extract_labels(paper_id, force, http)
    \/ \E paper_id \in PaperIds, force \in BOOLEAN,
          max_paragraphs \in {1, MaxParagraphsArg} :
           StartComments(paper_id, DocTies, max_paragraphs, force)
    \/ CommentTasks(CoreHttp("comments"))

Spec == Init /\ [][Next]_vars

\* The paper the single-operation runs work on.
OnePaper == "2401.07"

InitFresh == InitWith({Missing}, {DefaultConcurrency})

\* classify_paper alone, over every answer of the model.
NextClassify ==
    \E force \in BOOLEAN, http \in Http(ClassifyTexts) :
        classify_paper(OnePaper, force, http)

SpecClassify == InitFresh /\ [][NextClassify]_vars

\* extract_keywords and extract_labels, over every answer of the model.
NextLists ==
    \/ \E force \in BOOLEAN, http \in Http(KeywordsTexts) :
           extract_keywords(OnePaper, force, http)
    \/ \E force \in BOOLEAN, http \in Http(LabelsTexts) :
           extract_labels(OnePaper, force, http)

SpecLists == InitFresh /\ [][NextLists]_vars

InitComments == InitWith(StaleFiles, 1..MaxConcurrency)

\* generate_comments alone, over the documents and every max_paragraphs: a
\* first call, and later calls that do not force.
NextComments ==
    \/ \E force \in BOOLEAN, content \in Documents,
          max_paragraphs \in 0..MaxParagraphsArg :
           /\ calls = 0 \/ ~force
           /\ StartComments(OnePaper, content, max_paragraphs, force)
    \/ CommentTasks(Http(CommentTexts))

SpecComments == InitComments /\ [][NextComments]_vars

\* The four operations on one paper, forced or not, the documents with and
\* without paragraphs.
NextForce ==
    \/ \E force \in BOOLEAN, http \in CoreHttp("classification") :
           classify_paper(OnePaper, force, http)
    \/ \E force \in BOOLEAN, http \in CoreHttp("keywords") :
           extract_keywords(OnePaper, force, http)
    \/ \E force \in BOOLEAN, http \in CoreHttp("labels") :
           extract_labels(OnePaper, force, http)
    \/ \E force \in BOOLEAN, content \in {DocTies, DocEmpty},
          max_paragraphs \in {1, MaxParagraphsArg} :
           StartComments(OnePaper, content, max_paragraphs, force)
    \/ CommentTasks(CoreHttp("comments"))

SpecForce == Init /\ [][NextForce]_vars

\* A batch starts on a cache that is empty or holds empty files.
InitPipeline ==
    /\ \E file \in {Missing, EmptyFile} : cache = [c \in CacheFiles |-> file]
    /\ stats = [k \in Kinds |-> [success |-> 0, failure |-> 0]]
    /\ concurrency = DefaultConcurrency
    /\ calls = 0
    /\ last = NoCall
    /\ job = NoJob
    /\ \E force \in BOOLEAN : run = StartRun(force)
    /\ scraper = NoScraper

\* What the model answers in a batch: nothing, a list, a usable object.
PipelineHttp(kind) ==
    {[kind |-> "timeout", text |-> <<>>], HttpOk(<<Val(List(<<1>>))>>)}
    \cup {HttpOk(text) : text \in CoreTexts(kind) \ {<<Junk>>, <<Val(List(<<1>>))>>}}

\* step3_llm_process: the papers one after the other, each through
\* process_paper.
NextPipeline ==
    \/ NextPaper
    \/ \E kind \in {"classification", "keywords", "labels"} :
          \E http \in PipelineHttp(kind) : PaperOperation(kind, http)
    \/ PaperComments
    \/ \E i \in 1..Len(job.tasks) : AcquireSemaphore(i)
    \/ \E i \in 1..Len(job.tasks),
          http \in {[kind |-> "timeout", text |-> <<>>],
                    HttpOk(ObjText([importance |-> Str("high")]))} :
           CompleteParagraph(i, http)
    \/ PaperCommentsDone

SpecPipeline == InitPipeline /\ [][NextPipeline]_vars

\* The longest text given to the parser, in tokens.
MaxTextLen == 4

\* What a text is made of: braces, the members of an object, a JSON value
\* that is not an object, prose, whitespace, the two fences.
ParseTokens ==
    {LBrace, RBrace, Body([category |-> Str("robotics")]), Val(Num(0)),
     Junk, Space, FenceOpen, Fence}

ParseTexts == UNION {[1..n -> ParseTokens] : n \in 0..MaxTextLen}

\* A caller is about to hand a text to safe_json_parse.
InitParse ==
    /\ cache = [c \in CacheFiles |-> Missing]
    /\ stats = [k \in Kinds |-> [success |-> 0, failure |-> 0]]
    /\ concurrency = DefaultConcurrency
    /\ calls = 0
    /\ job = NoJob
    /\ run = NoRun
    /\ scraper = NoScraper
    /\ \E text \in ParseTexts :
           last = [op |-> "safe_json_parse", outcome |-> "pending", text |-> text]

\* parsed = safe_json_parse(response)
Parse ==
    /\ last.op = "safe_json_parse" /\ last.outcome = "pending"
    /\ last' = [op |-> "safe_json_parse", outcome |-> "returned",
                text |-> last.text, parsed |-> safe_json_parse(last.text)]
    /\ UNCHANGED <<cache, stats, concurrency, calls, job, run, scraper>>

SpecParse == InitParse /\ [][Parse]_vars

\* The four operations on one paper, the model answering or failing in
\* each of the three ways.
NextGenerate ==
    \/ \E force \in BOOLEAN, http \in HttpFailures \cup CoreHttp("classification") :
           classify_paper(OnePaper, force, http)
    \/ \E force \in BOOLEAN, http \in HttpFailures \cup CoreHttp("keywords") :
           extract_keywords(OnePaper, force, http)
    \/ \E force \in BOOLEAN, http \in HttpFailures \cup CoreHttp("labels") :
           extract_labels(OnePaper, force, http)
    \/ \E force \in BOOLEAN :
           StartComments(OnePaper, DocTies, MaxParagraphsArg, force)
    \/ CommentTasks(HttpFailures \cup CoreHttp("comments"))

SpecGenerate == InitFresh /\ [][NextGenerate]_vars

\* A page fetch of either scraper, built with any max_retries.
InitFetch ==
    /\ cache = [c \in CacheFiles |-> Missing]
    /\ stats = [k \in Kinds |-> [success |-> 0, failure |-> 0]]
    /\ concurrency = DefaultConcurrency
    /\ calls = 0
    /\ last = NoCall
    /\ job = NoJob
    /\ run = NoRun
    /\ \E site \in Sites, max_retries \in 0..MaxRetries :
           scraper = StartFetch(site, max_retries)

NextFetch ==
    \/ \E response \in Responses : Request(response)
    \/ Wake

\* Every request ends (in a response, a timeout or an error) and every
\* sleep ends, so a fetch that can take a step takes it.
SpecFetch == InitFetch /\ [][NextFetch]_vars /\ WF_vars(NextFetch)

\* A batch extraction over a cache file that is missing, cut short, of
\* another shape, or a content saved by an earlier run.
InitExtract ==
    /\ cache = [c \in CacheFiles |-> Missing]
    /\ stats = [k \in Kinds |-> [success |-> 0, failure |-> 0]]
    /\ concurrency = DefaultConcurrency
    /\ calls = 0
    /\ last = NoCall
    /\ job = NoJob
    /\ run = NoRun
    /\ \E file \in {Missing, EmptyFile, JsonFile(Obj([note |-> Str("x")])),
                    save_json(Ar5ivContent([paper_id |-> Str("2401.07"),
                                            title |-> Str("t")], 0).val)},
          force \in BOOLEAN, extractor_concurrency \in 1..MaxConcurrency :
           scraper = StartExtract(file, force, extractor_concurrency)

NextExtract ==
    \/ \E i \in 1..MaxPapers : BeginExtract(i)
    \/ \E i \in 1..MaxPapers, html \in BOOLEAN, parsed \in BOOLEAN, disk_ok \in BOOLEAN :
           FinishExtract(i, html, parsed, disk_ok)
    \/ ReturnExtracted

SpecExtract == InitExtract /\ [][NextExtract]_vars

\* The answers of NextTerminate's generate calls.
TerminateHttp ==
    {[kind |-> "timeout", text |-> <<>>],
     HttpOk(ObjText([importance |-> Str("high")])),
     HttpOk(ObjText([key_points |-> Str("k")]))}

\* One generate_comments call on an empty cache, the generate calls
\* answered by a timeout, a comment or an answer that makes the task raise.
NextTerminate ==
    \/ \E content \in Documents, max_paragraphs \in 0..MaxParagraphsArg :
           /\ calls = 0
           /\ StartComments(OnePaper, content, max_paragraphs, FALSE)
    \/ CommentTasks(TerminateHttp)

\* results = await asyncio.gather(...) has every result and
\* generate_comments runs on to its return: the step that ends the job.
GatherReturns == job.active /\ AllDone(job.tasks) /\ job' = NoJob

\* The event loop runs every task that is ready and every generate call
\* returns (OllamaClient.generate has a timeout): a paragraph task that can
\* enter the semaphore does, a generate call in flight returns, and the
\* coroutine waiting on gather resumes.
SpecTerminate ==
    /\ InitWith({Missing}, 1..MaxConcurrency)
    /\ [][NextTerminate]_vars
    /\ WF_vars(\E i \in 1..Len(job.tasks) : AcquireSemaphore(i))
    /\ WF_vars(\E i \in 1..Len(job.tasks), http \in TerminateHttp :
                   CompleteParagraph(i, http))
    /\ WF_job(GatherReturns)

(***************************************************************************)
(* Properties                                                              *)
(***************************************************************************)
\* The latest call has returned (or raised).
Finished == last.op \in Kinds /\ last.outcome # "pending"

\* The cache file of the latest call.
LastFile == get_llm_output_file(last.op, last.paper_id)

\* The file holds a result record that an operation wrote.
IsResultFile(file) ==
    file.st = "json" /\ file.val.t = "obj" /\ "paper_id" \in DOMAIN file.val.f

\* The latest call got past the cache check and issued its generate call.
Generated == Finished /\ last.outcome \in {"result", "no_result", "raised"} /\ last.gens > 0

\* The object the model's answer parsed to (single-request operations).
Answer == safe_json_parse(generate(last.input).text)

\* C1: once a call has succeeded its result is in the cache (a success
\* leaves the written result in the file, and no call turns a result file
\* into anything but a result file), and a call with force = FALSE that
\* finds a result in the cache issues no generate call, returns that
\* cached result and leaves the file as it is; a single-request operation
\* that succeeds has issued exactly one generate call, so Classify called
\* twice without force issues one generate call in all.
C1_CacheHit ==
    Finished =>
      /\ (~last.force /\ IsResultFile(last.before)) =>
            /\ last.outcome = "hit"
            /\ last.gens = 0
            /\ json_dumps(last.result) = last.before.val
            /\ cache[LastFile] = last.before
      /\ last.outcome = "result" =>
            /\ IsResultFile(cache[LastFile])
            /\ cache[LastFile].val = json_dumps(last.result)
            /\ last.op # "comments" => last.gens = 1
      /\ IsResultFile(last.before) => IsResultFile(cache[LastFile])

\* C1 witness: the second call, a classify_paper without force, is served
\* from the cache.
C1_Witness ==
    /\ Finished /\ calls = 2
    /\ last.op = "classification" /\ ~last.force
    /\ last.outcome = "hit" /\ last.gens = 0

\* C2: the category of every result classify_paper returns, and of every
\* classification result in the cache, is a key of PAPER_CATEGORIES; a
\* category of the taxonomy is kept and any other answer, "banana" or the
\* empty string among them, comes out as "other".
C2_CategoryInTaxonomy ==
    /\ \A file \in CacheFiles :
          (file[1] = "classification" /\ IsResultFile(cache[file])) =>
              cache[file].val.f["category"].s \in DOMAIN PAPER_CATEGORIES
    /\ (Finished /\ last.op = "classification" /\ last.outcome \in {"hit", "result"}) =>
          last.result.f["category"].s \in DOMAIN PAPER_CATEGORIES
    /\ (Finished /\ last.op = "classification" /\ last.outcome = "result") =>
          LET given == Get(Answer.val, "category", Str("other")) IN
          last.result.f["category"] =
              IF given.t = "str" /\ given.s \in DOMAIN PAPER_CATEGORIES
              THEN given ELSE Str("other")

\* C2 witness: the model answered category "banana" and classify_paper
\* returned a result of category "other".
C2_Witness ==
    /\ Finished /\ last.op = "classification" /\ last.outcome = "result"
    /\ Get(Answer.val, "category", Null) = Str("banana")
    /\ last.result.f["category"] = Str("other")

\* C3: no operation raises to its caller because of what the model
\* returned: a call that issued its generate call ends with a result or
\* with no result, and has counted the outcome.
C3_NeverRaises ==
    Generated =>
        /\ last.outcome \in {"result", "no_result"}
        /\ \/ stats[last.op].success = last.stats_before[last.op].success + 1
           \/ stats[last.op].failure = last.stats_before[last.op].failure + 1

\* The confidence the model's answer carries is absent or no number.
ConfidenceMissing(answer) ==
    \/ "confidence" \notin DOMAIN answer.f
    \/ /\ answer.f["confidence"].t \notin {"num", "bool"}
       /\ ~(answer.f["confidence"].t = "str"
            /\ answer.f["confidence"].s \in DOMAIN NumericStrings)

\* C4: when the answer parses to an object with a usable category and
\* reasoning and with no confidence, or one that is no number,
\* classify_paper returns a result of confidence 0.5.
C4_ConfidenceDefault ==
    (/\ Generated /\ last.op = "classification"
     /\ Answer.ok /\ Answer.val.t = "obj" /\ Truthy(Answer.val)
     /\ Get(Answer.val, "category", Null).t \in {"str", "null"}
     /\ Get(Answer.val, "reasoning", Null).t \in {"str", "null"}
     /\ ConfidenceMissing(Answer.val))
    => /\ last.outcome = "result"
       /\ last.result.f["confidence"] = Num(5)

\* The latest call was a generate_comments that has returned.
CommentsDone == Finished /\ last.op = "comments"

\* The comments of the Comments result the latest call returned.
LastComments == last.result.f["comments"].l

\* The paragraphs of a document, counted through its section tree.
RECURSIVE ParagraphCount(_)
ParagraphCount(sections) ==
    IF sections = <<>> THEN 0
    ELSE Len(Head(sections).paragraphs) + ParagraphCount(Head(sections).subsections)
         + ParagraphCount(Tail(sections))

\* C5 as stated: every Comments result generate_comments returns, freshly
\* generated or served from the cache, has at most max_paragraphs comments
\* (of that call) and at most as many as the document has paragraphs.
C5_BoundOnEveryResult ==
    (CommentsDone /\ last.outcome \in {"hit", "result"}) =>
        /\ Len(LastComments) <= last.input.max_paragraphs
        /\ Len(LastComments) <= ParagraphCount(last.input.content.sections)

\* C5 as amended: every Comments result that generate_comments generates
\* itself (not one served from the cache), for max_paragraphs >= 0, has at
\* most max_paragraphs comments and at most as many as the document has
\* paragraphs.
C5_BoundOnFreshResult ==
    (CommentsDone /\ last.outcome = "result") =>
        /\ Len(LastComments) <= last.input.max_paragraphs
        /\ Len(LastComments) <= ParagraphCount(last.input.content.sections)

\* C5 witness: a freshly generated result of a document with more
\* paragraphs than max_paragraphs, with max_paragraphs comments.
C5_Witness ==
    /\ CommentsDone /\ last.outcome = "result"
    /\ ParagraphCount(last.input.content.sections) > last.input.max_paragraphs
    /\ Len(LastComments) = last.input.max_paragraphs

\* The generate calls of the generate_comments call in progress that have
\* been issued and have not returned.
InFlight == Cardinality({i \in DOMAIN job.tasks : job.tasks[i].st = "running"})

\* C6: under every interleaving of the paragraph tasks, the generate calls
\* in flight at the same time for the document never exceed concurrency.
C6_ConcurrencyBound == InFlight <= concurrency

\* C6 witness: as many generate calls in flight as the semaphore allows,
\* with a further paragraph task held back.
C6_Witness ==
    /\ job.active
    /\ InFlight = concurrency
    /\ \E i \in DOMAIN job.tasks : job.tasks[i].st = "waiting"

\* The paragraph tasks of the generate_comments call in progress, or of the
\* latest one that got past its cache check.
Submitted ==
    IF job.active THEN [input |-> job.input, tasks |-> job.tasks, known |-> TRUE]
    ELSE IF CommentsDone /\ last.outcome \in {"result", "no_result"}
         THEN [input |-> last.input, tasks |-> last.tasks, known |-> TRUE]
         ELSE [input |-> <<>>, tasks |-> <<>>, known |-> FALSE]

\* The texts of a document, read off its section tree.
RECURSIVE TextsOf(_)
TextsOf(sections) ==
    IF sections = <<>> THEN {}
    ELSE {Head(sections).paragraphs[i] : i \in DOMAIN Head(sections).paragraphs}
         \cup TextsOf(Head(sections).subsections) \cup TextsOf(Tail(sections))

\* C9: generate_comments submits min(max_paragraphs, T) paragraphs of the
\* document; no paragraph left out is longer than one submitted; the
\* paragraph with paragraph_index i is the i-th of them in descending
\* length; and the three-paragraph document with max_paragraphs = 2 gives
\* its two longest, the longer first.
C9_LongestSelected ==
    Submitted.known =>
      LET tasks == Submitted.tasks
          all == TextsOf(Submitted.input.content.sections)
          chosen == {tasks[i].para.text : i \in DOMAIN tasks}
          T == ParagraphCount(Submitted.input.content.sections)
          m == Submitted.input.max_paragraphs
      IN /\ Len(tasks) = IF m < T THEN m ELSE T
         /\ chosen \subseteq all
         /\ Cardinality(chosen) = Len(tasks)
         /\ \A a \in all \ chosen, c \in chosen : a.n <= c.n
         /\ \A i \in DOMAIN tasks : tasks[i].idx = i - 1
         /\ \A i, j \in DOMAIN tasks : i < j => tasks[i].para.text.n >= tasks[j].para.text.n
         /\ (Submitted.input.content = DocDeep /\ m = 2) =>
                /\ tasks[1].para.text = Text("p2", 250)
                /\ tasks[2].para.text = Text("p3", 120)

\* C9 witness: a finished call on the three-paragraph document with
\* max_paragraphs = 2: two paragraphs were submitted.
C9_Witness ==
    /\ CommentsDone /\ last.outcome \in {"result", "no_result"}
    /\ last.input.content = DocDeep /\ last.input.max_paragraphs = 2
    /\ Len(last.tasks) = 2

\* The paragraph tasks of the latest call that gave a comment.
Commented == {i \in DOMAIN last.tasks : last.tasks[i].res.kind = "comment"}

\* C10: in a generate_comments call that got past its cache check every
\* selected paragraph was given one generate call, a paragraph that gave
\* no comment is left out of the result and leaves the counters alone;
\* with at least one comment the call returns the result, writes it to the
\* cache and counts one success, with none it returns no result, leaves
\* the cache file as it was and counts one failure.
C10_PartialFailure ==
    /\ (CommentsDone /\ last.outcome = "raised") =>
          (last.gens = 0 /\ ~last.force /\ last.before.st # "missing")
    /\ (CommentsDone /\ last.outcome \in {"result", "no_result"}) =>
      LET was == last.stats_before["comments"]
          now == stats["comments"]
      IN /\ last.gens = Len(last.tasks)
         /\ \A k \in Kinds \ {"comments"} : stats[k] = last.stats_before[k]
         /\ IF Commented # {}
            THEN /\ last.outcome = "result"
                 /\ Len(LastComments) = Cardinality(Commented)
                 /\ \A i \in Commented :
                       \E c \in DOMAIN LastComments :
                           LastComments[c] = last.tasks[i].res.val
                 /\ cache[LastFile] = save_json(last.result)
                 /\ now.success = was.success + 1
                 /\ now.failure = was.failure
            ELSE /\ last.outcome = "no_result"
                 /\ cache[LastFile] = last.before
                 /\ now.failure = was.failure + 1
                 /\ now.success = was.success

\* C10 witness: one paragraph gave no text, one raised, one gave a
\* comment, and the call returned a result with that one comment.
C10_Witness ==
    /\ CommentsDone /\ last.outcome = "result"
    /\ \E i \in DOMAIN last.tasks : last.tasks[i].res.kind = "none"
    /\ \E i \in DOMAIN last.tasks : last.tasks[i].res.kind = "exception"
    /\ Len(LastComments) = 1

\* The file is missing, empty, no JSON, or JSON that is no result record.
IsBadFile(file) == ~IsResultFile(file)

\* C7: a call without force that finds a missing, empty, unparseable or
\* ill-fitting cache file treats it as a miss: it does not raise because
\* of the file, it goes on to its generate call.
C7_BadCacheIsMiss ==
    (Finished /\ ~last.force /\ IsBadFile(last.before)) =>
        /\ last.outcome # "hit"
        /\ ~(last.outcome = "raised" /\ last.gens = 0)

\* The list the model's answer gave for a field, and the list of the
\* latest result.
Returned(field) == Get(Answer.val, field, List(<<>>)).l

Kept(field) == last.result.f[field].l

\* The kept list is the returned one cut to its first cap entries.
FirstOf(field, cap) ==
    /\ Len(Kept(field)) = IF Len(Returned(field)) < cap THEN Len(Returned(field)) ELSE cap
    /\ \A i \in DOMAIN Kept(field) : Kept(field)[i] = Returned(field)[i]

\* C8: every Keywords result (returned, or in the cache) has at most 10
\* keywords and 10 keywords_zh, every Labels result at most 5 labels and 5
\* labels_zh; a freshly built result keeps the first entries of the lists
\* the model returned.
C8_ListCaps ==
    /\ \A file \in CacheFiles :
          /\ (file[1] = "keywords" /\ IsResultFile(cache[file])) =>
                /\ Len(cache[file].val.f["keywords"].l) <= 10
                /\ Len(cache[file].val.f["keywords_zh"].l) <= 10
          /\ (file[1] = "labels" /\ IsResultFile(cache[file])) =>
                /\ Len(cache[file].val.f["labels"].l) <= 5
                /\ Len(cache[file].val.f["labels_zh"].l) <= 5
    /\ (Finished /\ last.op = "keywords" /\ last.outcome \in {"hit", "result"}) =>
          /\ Len(Kept("keywords")) <= 10
          /\ Len(Kept("keywords_zh")) <= 10
    /\ (Finished /\ last.op = "labels" /\ last.outcome \in {"hit", "result"}) =>
          /\ Len(Kept("labels")) <= 5
          /\ Len(Kept("labels_zh")) <= 5
    /\ (Finished /\ last.op = "keywords" /\ last.outcome = "result") =>
          FirstOf("keywords", 10) /\ FirstOf("keywords_zh", 10)
    /\ (Finished /\ last.op = "labels" /\ last.outcome = "result") =>
          FirstOf("labels", 5) /\ FirstOf("labels_zh", 5)

\* C8 witness: the model returned more than 10 keywords and more than 5
\* labels' worth of entries, and the Keywords result holds 10 of them.
C8_Witness ==
    /\ Finished /\ last.op = "keywords" /\ last.outcome = "result"
    /\ Len(Returned("keywords")) > 10
    /\ Len(Kept("keywords")) = 10

(***************************************************************************)
(* C11: force                                                              *)
(***************************************************************************)
\* The number of paragraphs the latest generate_comments call selected.
Selected ==
    Len(SelectParagraphs(last.input.content, last.input.max_paragraphs))

\* What a call with and without force does to the cache, apart from the
\* number of generate calls of a forced call.
ForceAndCache ==
    /\ last.force => last.outcome \in {"result", "no_result", "raised"}
    /\ (last.force /\ last.outcome = "result") =>
          /\ cache[LastFile] = save_json(last.result)
          /\ last.result.f["generated_at"] = DateTime(calls)
          /\ IsResultFile(last.before) => cache[LastFile] # last.before
    /\ (~last.force /\ IsResultFile(last.before)) => cache[LastFile] = last.before
    /\ cache[LastFile] # last.before =>
          /\ last.outcome = "result"
          /\ last.force \/ ~IsResultFile(last.before)

\* C11 as stated: a forced call ignores the cache entry and issues a
\* generate call, a success puts the new result in the place of the old
\* one; without force a valid entry is never rewritten, so a file is
\* written only by a success that was forced or found no valid entry.
C11_ForceIssuesGenerate ==
    Finished => (ForceAndCache /\ (last.force => last.gens >= 1))

\* C11 amended: the same, with the generate calls of a forced call
\* counted per operation: exactly one for classify_paper, extract_keywords
\* and extract_labels, one for each selected paragraph for
\* generate_comments (none when no paragraph is selected).
C11_ForceRegenerates ==
    Finished =>
      /\ ForceAndCache
      /\ last.force =>
            last.gens = IF last.op = "comments" THEN Selected ELSE 1

\* C11 witness: a forced call found a result in the cache, generated and
\* wrote a new one in its place.
C11_Witness ==
    /\ Finished /\ last.force /\ last.gens >= 1
    /\ IsResultFile(last.before)
    /\ last.outcome = "result"
    /\ cache[LastFile] = save_json(last.result)
    /\ cache[LastFile] # last.before

(***************************************************************************)
(* C12: the merged record                                                  *)
(***************************************************************************)
\* The loop is between two papers (or through).
BetweenPapers == run.active /\ run.pc = "next"

\* The papers the loop has taken so far.
Taken == Len(Batch) - Len(run.papers)

\* The record of the latest paper holds the annotations process_paper
\* collected, and those are the results of the operations that succeeded.
LatestRecord ==
    LET full == run.full_papers[Len(run.full_papers)] IN
    /\ full.paper_id = run.paper.paper_id
    /\ \A k \in Kinds : full[k] = run.result[k]
    /\ run.paper.abstract =>
          /\ run.processed[get_processed_file(run.paper.paper_id)] = DumpFullPaper(full)
          /\ last.op = "comments"
          /\ full.comments = IF last.outcome \in {"hit", "result"}
                             THEN last.result ELSE NoResult

\* C12: every paper the loop has taken has its merged record, whatever the
\* outcome of its operations: no paper ends in the error list, the record
\* of the latest paper holds exactly the annotations that succeeded, and
\* process_paper ran all its operations (the record is made after
\* generate_comments, the last of them).
C12_MergedRecord ==
    BetweenPapers =>
      /\ Len(run.full_papers) = Taken
      /\ run.errors = <<>>
      /\ Taken > 0 => LatestRecord

(***************************************************************************)
(* C13: what counts as a parse failure                                     *)
(***************************************************************************)
\* C13: when the model's text parses to a JSON object, an object without
\* fields or without the category among them, classify_paper goes on to
\* build a result (category "other" when the object gives none) and does
\* not return 'no result'.  Calls that end in an exception are left aside.
C13_ObjectGivesResult ==
    (/\ Generated /\ last.op = "classification"
     /\ Answer.ok /\ Answer.val.t = "obj"
     /\ last.outcome # "raised") =>
        /\ last.outcome = "result"
        /\ "category" \notin DOMAIN Answer.val.f =>
               last.result.f["category"] = Str("other")

(***************************************************************************)
(* C14, C15: safe_json_parse                                               *)
(***************************************************************************)
\* safe_json_parse has returned.
Parsed == last.op = "safe_json_parse" /\ last.outcome = "returned"

\* The text has a fenced block and the block is JSON.
FenceParses(text) == FenceMatch(text).found /\ json_loads(FenceMatch(text).group).ok

\* The text has a brace span and the span is JSON.
BraceParses(text) == BraceMatch(text).found /\ json_loads(BraceMatch(text).group).ok

C15_FirstBraceSpan ==
    Parsed =>
      LET text == last.text
          opens == Positions(text, {"lbrace"})
      IN (/\ ~json_loads(text).ok
          /\ Positions(text, {"fence_json"}) = {}
          /\ opens # {}
          /\ Min(opens) + 2 <= Len(text)
          /\ text[Min(opens) + 1].k = "body"
          /\ text[Min(opens) + 2].k = "rbrace") =>
             last.parsed = [ok |-> TRUE, val |-> text[Min(opens) + 1].v]

(***************************************************************************)
(* C16: the keywords that extract_labels is given                          *)
(***************************************************************************)
\* process_paper has made its extract_labels call for the paper in hand.
LabelsCalled ==
    run.active /\ \E j \in DOMAIN run.ops : run.ops[j] = "labels"

\* The keywords of the paper's Keywords result, none when it has no result.
KeywordsProduced ==
    IF run.result["keywords"] = NoResult THEN <<>>
    ELSE run.result["keywords"].f["keywords"].l

\* extract_labels is called after extract_keywords has returned, and its
\* prompt, when it builds one, lists the keywords of the Keywords result.
LabelsAfterKeywords ==
    /\ \E i, j \in DOMAIN run.ops :
          i < j /\ run.ops[i] = "keywords" /\ run.ops[j] = "labels"
    /\ run.keyword_list = KeywordsProduced
    /\ run.prompt_keywords \in {<<>>, KeywordsProduced}
    /\ run.result["keywords"] = NoResult => run.prompt_keywords = <<>>

\* C16 as stated: the Labels call comes after the Keywords operation and
\* its prompt holds at most 5 of the keywords (none when Keywords failed).
C16_AtMostFiveKeywords ==
    LabelsCalled => (LabelsAfterKeywords /\ Len(run.prompt_keywords) <= 5)

\* C16 amended: the Labels call comes after the Keywords operation and its
\* prompt holds all the keywords of the Keywords result, which are at most
\* KeywordsCap (none when Keywords failed).
C16_AllKeywords ==
    LabelsCalled =>
      /\ LabelsAfterKeywords
      /\ Len(run.prompt_keywords) <= KeywordsCap
      /\ (last.op = "labels" /\ last.gens > 0) => run.prompt_keywords = KeywordsProduced

\* C16 witness: extract_labels has issued its generate call with a prompt
\* of KeywordsCap keywords.
C16_Witness ==
    /\ LabelsCalled /\ last.op = "labels" /\ last.gens = 1
    /\ Len(run.prompt_keywords) = KeywordsCap
    /\ run.prompt_keywords = KeywordsProduced

(***************************************************************************)
(* C17: a failed generate call is not retried                              *)
(***************************************************************************)
\* The latest call was a single-request operation whose generate call
\* failed: a status other than 200, a timeout or a transport error.
GenerateFailed ==
    /\ Generated /\ last.op # "comments"
    /\ last.input.kind \in {"status", "timeout", "error"}

Fetching == scraper.kind = "fetch"

FetchDone == Fetching /\ scraper.pc = "done"

\* The seconds _fetch_page sleeps per retry, by scraper and by what the
\* request ended in.
WaitPerRetry(site, response) ==
    CASE site = "ar5iv" /\ response = "429"     -> 120
      [] site = "ar5iv" /\ response = "timeout" -> 10
      [] site = "hf" /\ response = "429"        -> 60
      [] OTHER                                  -> 5

\* The requests of a fetch are bounded by the one counter, each retry is
\* the end of a sleep whose length is the retry's number times a constant,
\* and the fetch returns the page or None.
FetchBounded ==
    Fetching =>
      /\ scraper.requests <= scraper.max_retries + 1
      /\ scraper.retry_count <= scraper.max_retries
      /\ scraper.requests =
            scraper.retry_count + (IF scraper.pc = "request" THEN 0 ELSE 1)
      /\ Len(scraper.sleeps) \in {scraper.retry_count, scraper.retry_count + 1}
      /\ \A k \in DOMAIN scraper.sleeps :
            /\ scraper.sleeps[k].retry_count = k - 1
            /\ scraper.sleeps[k].wait =
                  WaitPerRetry(scraper.site, scraper.sleeps[k].response) * k
      /\ scraper.result \in {"pending", "html", "none"}
      /\ scraper.pc = "done" =>
            /\ scraper.result \in {"html", "none"}
            /\ scraper.result = "html" <=> scraper.log[Len(scraper.log)] = "200"

C19_EveryFailureRetried ==
    (FetchDone /\ scraper.result = "none") =>
        scraper.requests = scraper.max_retries + 1

\* C19 amended: a timeout and a 429 (and for HFPapersScraper a client
\* error) are retried with backoff until max_retries is used up; every
\* other failure (404, 403, any other status, any other exception, and
\* for Ar5ivExtractor a client error) ends the fetch at once, unretried.
C19_RetriedKinds ==
    Fetching =>
      LET retried == IF scraper.site = "ar5iv" THEN {"429", "timeout"}
                     ELSE {"429", "timeout", "client_error"}
          n == Len(scraper.log)
      IN /\ \A i \in 1..(n - 1) : scraper.log[i] \in retried
         /\ (n > 0 /\ scraper.log[n] \notin retried) =>
               scraper.pc = "done" /\ Len(scraper.sleeps) = n - 1
         /\ (FetchDone /\ scraper.result = "none" /\ scraper.log[n] \in retried) =>
               /\ scraper.requests = scraper.max_retries + 1
               /\ Len(scraper.sleeps) >= scraper.max_retries

\* C19 witness: a fetch of HFPapersScraper met client errors only, retried
\* up to max_retries and then failed.
C19_Witness ==
    /\ FetchDone /\ scraper.site = "hf" /\ scraper.result = "none"
    /\ scraper.max_retries >= 1
    /\ scraper.requests = scraper.max_retries + 1
    /\ \A i \in DOMAIN scraper.log : scraper.log[i] = "client_error"

\* extract_paper has fetched a page: any of the pages, for an id or for a
\* value that is no id.
InitParseHtml ==
    /\ cache = [c \in CacheFiles |-> Missing]
    /\ stats = [k \in Kinds |-> [success |-> 0, failure |-> 0]]
    /\ concurrency = DefaultConcurrency
    /\ calls = 0
    /\ last = NoCall
    /\ job = NoJob
    /\ run = NoRun
    /\ \E page \in Pages, paper_id \in ParseIds : scraper = StartParse(page, paper_id)

NextParseHtml == ParseHtml \/ SaveContent \/ LoadContent

SpecParseHtml == InitParseHtml /\ [][NextParseHtml]_vars

\* A ProxyManager whose nodes have been tested, with auto_rotate on or
\* off and a max_fail_count up to the default.
InitProxy ==
    /\ cache = [c \in CacheFiles |-> Missing]
    /\ stats = [k \in Kinds |-> [success |-> 0, failure |-> 0]]
    /\ concurrency = DefaultConcurrency
    /\ calls = 0
    /\ last = NoCall
    /\ job = NoJob
    /\ run = NoRun
    /\ \E nodes \in NodeLists, auto_rotate \in BOOLEAN,
          max_fail_count \in 1..DefaultMaxFailCount :
           scraper = StartProxy(nodes, auto_rotate, max_fail_count)

NextProxy == SelectFastest \/ RotateNode \/ ReportFailure \/ ReportSuccess

SpecProxy == InitProxy /\ [][NextProxy]_vars

(***************************************************************************)
(* C20: extract_papers                                                     *)
(***************************************************************************)
ExtractReturned == scraper.kind = "extract" /\ scraper.pc = "returned"

\* The tasks of the batch that ended with a content, in the order of the
\* paper ids.
Succeeded ==
    {i \in DOMAIN scraper.tasks : scraper.tasks[i].res.kind = "content"}

\* C20: an exception or a failure in the extraction of one paper is caught
\* and leaves the other papers of the batch alone: when extract_papers
\* returns, every paper of the batch has been attempted, the semaphore has
\* all its permits back, and the list returned holds the contents of
\* exactly the papers whose extraction succeeded, in the order of the ids.
C20_BatchIsolation ==
    ExtractReturned =>
      /\ \A i \in DOMAIN scraper.tasks : scraper.tasks[i].st = "done"
      /\ scraper.sem = scraper.permits
      /\ Len(scraper.results) = Cardinality(Succeeded)
      /\ \A i \in Succeeded :
            scraper.results[Cardinality({j \in Succeeded : j <= i})] =
                scraper.tasks[i].res.val
      /\ scraper.success_count + scraper.failure_count <= Len(scraper.tasks)

\* C20 witness: the extraction of the first paper raised, that of a later
\* paper succeeded, and the list returned holds the later paper's content.
C20_Witness ==
    /\ ExtractReturned
    /\ scraper.tasks[1].res.kind = "exception"
    /\ \E i \in DOMAIN scraper.tasks : i > 1 /\ scraper.tasks[i].res.kind = "content"
    /\ Len(scraper.results) >= 1

(***************************************************************************)
(* C21, C22: parse_html                                                    *)
(***************************************************************************)
\* parse_html has returned.
HtmlParsed == scraper.kind = "parse" /\ scraper.pc # "parse"

\* The fields of Ar5ivContent.
Ar5ivFields ==
    {"paper_id", "title", "authors", "affiliations", "abstract", "sections",
     "figures", "tables", "equations", "references", "full_text", "extracted_at"}

\* C21: parse_html returns None or a complete Document and nothing else:
\* a Document has every field of Ar5ivContent, each holding what its
\* extractor gives for the page (the title "Unknown Title" for a page
\* without h1.ltx_title and without <title>), and it is returned only when
\* no step raised; a step or a constructor that raises gives None.
C21_AllOrNothing ==
    HtmlParsed =>
      LET page == scraper.page
          content == scraper.content
          fields == ParsedFields(page, scraper.paper_id)
      IN /\ content = Null \/ content.t = "obj"
         /\ content # Null =>
              /\ DOMAIN content.f = Ar5ivFields
              /\ \A k \in DOMAIN fields : content.f[k] = fields[k]
              /\ content.f["extracted_at"].t = "datetime"
              /\ page.raises = "none"
              /\ IsStr(scraper.paper_id)
              /\ (~page.h1.has /\ ~page.title_tag.has)
                    => content.f["title"] = Str("Unknown Title")
         /\ (page.raises # "none" \/ ~IsStr(scraper.paper_id)) => content = Null

\* C21 witness: a page that parses into a Document with the fallback
\* title, sections and an abstract.
C21_Witness ==
    /\ HtmlParsed /\ scraper.content # Null
    /\ scraper.content.f["title"] = Str("Unknown Title")
    /\ scraper.content.f["sections"].l # <<>>
    /\ scraper.content.f["abstract"] # Null

\* The sections of a section tree, at every depth.
RECURSIVE TreeSections(_)
TreeSections(sections) ==
    IF sections = <<>> THEN <<>>
    ELSE <<Head(sections)>> \o TreeSections(Head(sections).f["subsections"].l)
         \o TreeSections(Tail(sections))

Range(seq) == {seq[i] : i \in DOMAIN seq}

\* The headings of the pages that begin, in whatever case and after
\* leading whitespace, with references, bibliography or appendix.
ReferenceHeadings ==
    {"References", " REFERENCES  and notes ", "REFERENCES and notes", "Bibliography",
     "Appendixes"}

\* The containers of the page with such a heading of their own.
ReferenceContainers(page) ==
    {c \in Range(Descendants(page.sections)) :
        c.heading.has /\ c.heading.text \in ReferenceHeadings}

CacheRead == scraper.kind = "parse" /\ scraper.pc \in {"reloaded", "refetch"}

\* C25: the Document that extract_paper saved with save_json and a later
\* call with force=false loads and rebuilds is equal to the original in
\* every field, the section tree and extracted_at included: the later
\* call is served from the cache and returns an equal Document.
C25_RoundTrip ==
    CacheRead =>
      /\ scraper.pc = "reloaded"
      /\ scraper.reloaded = scraper.content
      /\ \A k \in Ar5ivFields : scraper.reloaded.f[k] = scraper.content.f[k]

\* C25 witness: a Document with nested sections, paragraphs, a figure
\* and an abstract has been read back at a later instant than the one of
\* its extraction.
C25_Witness ==
    /\ CacheRead /\ scraper.pc = "reloaded"
    /\ \E s \in Range(scraper.content.f["sections"].l) :
          /\ s.f["paragraphs"].l # <<>>
          /\ s.f["subsections"].l # <<>>
    /\ scraper.content.f["figures"].l # <<>>
    /\ scraper.content.f["abstract"] # Null
    /\ scraper.content.f["extracted_at"].n < scraper.clock
    /\ scraper.file.val.f["extracted_at"] = DateStr(scraper.content.f["extracted_at"].n)

(***************************************************************************)
(* C30: ProxyManager's current node                                        *)
(***************************************************************************)
\* select_fastest has chosen a node and auto_rotate is on.
Rotating == scraper.kind = "proxy" /\ scraper.selected /\ scraper.auto_rotate

\* C30: with auto_rotate on, after select_fastest and any sequence of
\* report_failure, report_success and rotate_node calls, the current node
\* is never a node marked unavailable; the report_failure call that is the
\* max_fail_count-th in a row on the current node marks that node
\* unavailable and makes an available node current; and the index
\* rotate_node has set is within the list of available nodes.
C30_CurrentAvailable ==
    Rotating =>
      /\ scraper.nodes[scraper.current_node].is_available
      /\ (scraper.op.name = "report_failure"
            /\ scraper.op.streak >= scraper.max_fail_count) =>
            /\ ~scraper.nodes[scraper.op.node].is_available
            /\ scraper.current_node # scraper.op.node
            /\ scraper.nodes[scraper.current_node].is_available
      /\ (scraper.op.name = "rotate_node" /\ scraper.op.available > 0) =>
            scraper.node_index < scraper.op.available

(***************************************************************************)
(* C23: the importance of a paragraph comment                              *)
(***************************************************************************)
\* C23: every ParagraphComment of every Comments result that
\* generate_comments returns has an importance that is low, medium or
\* high, whatever the model answered for that field.
C23_ImportanceClosed ==
    (CommentsDone /\ last.outcome \in {"hit", "result"}) =>
        \A c \in DOMAIN LastComments :
            LastComments[c].f["importance"] \in {Str("low"), Str("medium"), Str("high")}

(***************************************************************************)
(* C24: one cache file per (paper id, annotation kind)                     *)
(***************************************************************************)
\* C24: two different (paper id, annotation kind) keys never map to the
\* same cache file, and so a call that is served from the cache is given
\* an entry that was written for its own paper id.
C24_KeysApart ==
    /\ \A k1, k2 \in Kinds \X PaperIds :
          k1 # k2 => get_llm_output_file(k1[1], k1[2]) # get_llm_output_file(k2[1], k2[2])
    /\ (Finished /\ last.outcome = "hit") =>
          last.result.f["paper_id"] = Str(last.paper_id)

(***************************************************************************)
(* C26: the success and failure counters                                   *)
(***************************************************************************)
\* What the latest call added to a counter.
Counted(kind, field) == stats[kind][field] - last.stats_before[kind][field]

\* C26: every call that has ended and was not served from the cache has
\* added exactly 1 to exactly one of the two counters of its own kind and
\* nothing to the counters of the other kinds; a call served from the
\* cache has changed no counter; and when a success is counted the result
\* is in the cache file.
C26_OneCountPerCall ==
    Finished =>
      /\ \A k \in Kinds \ {last.op} : stats[k] = last.stats_before[k]
      /\ IF last.outcome = "hit" THEN stats = last.stats_before
         ELSE Counted(last.op, "success") + Counted(last.op, "failure") = 1
      /\ \A field \in {"success", "failure"} : Counted(last.op, field) \in {0, 1}
      /\ Counted(last.op, "success") = 1 =>
            /\ last.outcome = "result"
            /\ cache[LastFile] = save_json(last.result)

(***************************************************************************)
(* C27: what a failed call leaves in the cache                             *)
(***************************************************************************)
\* The cache entry of a (kind, paper id) key.
Entry(c, key) == c[get_llm_output_file(key[1], key[2])]

\* The step ends a call whose generate call failed or whose answer could
\* not be parsed: the call returns no result.
EndsWithoutResult == last'.op \in Kinds /\ last' # last /\ last'.outcome = "no_result"

\* C27: a call that ends without a result, forced or not, leaves the cache
\* entry of its key exactly as it was, and no step of any operation
\* changes the entry of a key other than the key of the call it belongs to.
C27_FailureKeepsCache ==
    [][/\ EndsWithoutResult => cache' = cache
       /\ \A key \in Kinds \X PaperIds :
             (last'.op \in Kinds /\ key # <<last'.op, last'.paper_id>>) =>
                 Entry(cache', key) = Entry(cache, key)]_vars

(***************************************************************************)
(* C28: the order of the comments                                          *)
(***************************************************************************)
\* The paragraph_index of the c-th comment of the latest result.
IndexOf(c) == LastComments[c].f["paragraph_index"].n

\* C28: the comments of a Comments result that generate_comments returns
\* are in strictly increasing paragraph_index order, so no index occurs
\* twice, whatever the order in which the paragraph tasks completed; in a
\* freshly generated result the indices are those of the length-sorted
\* selection, each comment being the one its task produced.
C28_IndexOrder ==
    (CommentsDone /\ last.outcome \in {"hit", "result"}) =>
      /\ \A c, d \in DOMAIN LastComments : c < d => IndexOf(c) < IndexOf(d)
      /\ last.outcome = "result" =>
            \A c \in DOMAIN LastComments :
                \E i \in Commented :
                    /\ last.tasks[i].idx = IndexOf(c)
                    /\ last.tasks[i].res.val = LastComments[c]

\* C28 witness: a result of at least two comments whose paragraph tasks
\* did not complete in index order.
C28_Witness ==
    /\ CommentsDone /\ last.outcome = "result"
    /\ last.overtaken
    /\ Len(LastComments) >= 2

(***************************************************************************)
(* C29: generate_comments terminates                                       *)
(***************************************************************************)
\* The permits of the semaphore are all accounted for: those in hand plus
\* those held by running tasks are the concurrency, and a call that has
\* returned has had every selected paragraph's task run to its end.
PermitsKept ==
    /\ job.active => (job.sem >= 0 /\ job.sem + InFlight = concurrency)
    /\ (CommentsDone /\ last.outcome \in {"result", "no_result"}) =>
          /\ \A i \in DOMAIN last.tasks : last.tasks[i].st = "done"
          /\ last.gens = Len(last.tasks)

\* C29: with concurrency >= 1 and every generate call returning, a
\* generate_comments call that has created its paragraph tasks returns:
\* every task acquires the semaphore and completes, the permit goes back
\* after each task, failed or raised or not, and no task waits forever.
C29_Terminates ==
    /\ []PermitsKept
    /\ job.active ~> (~job.active /\ CommentsDone
                      /\ last.outcome \in {"result", "no_result"})

\* C29 witness: a call with more paragraph tasks than permits has
\* returned, one of its tasks having raised and one having got no text.
C29_Witness ==
    /\ CommentsDone /\ last.outcome \in {"result", "no_result"}
    /\ Len(last.tasks) > concurrency
    /\ \E i \in DOMAIN last.tasks : last.tasks[i].res.kind = "exception"
    /\ \E i \in DOMAIN last.tasks : last.tasks[i].res.kind = "none"

====
